---- MODULE Spec2Model ----
(***************************************************************************)
(* A model of arrgh.js (src/src/arrgh.js): the lazy iterator adapters, the *)
(* ordering engine and the custom-equality Dictionary.                     *)
(*                                                                         *)
(* Values.  An element (or dictionary key) is a JavaScript value named by  *)
(* a small integer e.  It has two fields, a = e \div 2 and b = e % 2, that *)
(* key selectors and custom comparers read, and a string form ToStr(e),    *)
(* which is what toString() returns and what the engine gets when the      *)
(* value is used as a property name.  Two different values can share one   *)
(* string form (as the number 1 and the string "1" do), and one string     *)
(* form is the name of a property every object inherits ("constructor").   *)
(***************************************************************************)
EXTENDS Integers, Sequences, FiniteSets, TLC

VARIABLES
    dict,     \* the Dictionary object: length, _.hashes, _.keys
    cmpArg,   \* the eqComparer argument the Dictionary was constructed with
    added,    \* history: the pairs of the add calls that returned normally
    removes,  \* history: the number of remove calls made
    last,     \* the last call made on the dictionary (or by a forEach on its
              \* callback) and how it ended
    nops,     \* the number of calls made so far
    arrays,   \* the caller's backing arrays A and B
    fac,      \* the facade built so far: the stages wrapped around new Enumerable(A)
    its,      \* the enumerations (forEach calls) in progress, each with its iterator
    mods      \* the number of changes the caller made to the backing arrays

dvars == <<dict, cmpArg, added, removes, last, nops>>
mvars == <<arrays, fac, its, mods>>
vars == <<dict, cmpArg, added, removes, last, nops, arrays, fac, its, mods>>

(***************************************************************************)
(* Bounds of the model.                                                    *)
(***************************************************************************)
MaxElem == 4
MaxVal == 1
MaxOps == 4
MaxLen == 2
MaxLenB == 1
MaxStages == 1
MaxKeys == 2
MaxEnum == 2
MaxMods == 1
MaxArrElem == 1
MaxIn == 3
MaxInB == 2
MaxLinks == 3
MaxOperators == 2
MaxAfter == 2
MaxDictKeys == 3

Elems == 0..MaxElem
Vals == 0..MaxVal

(***************************************************************************)
(* null and undefined.  The encoding is larger than every element so that  *)
(* nothing about them follows from the order of the integers.              *)
(***************************************************************************)
Null == 98
Undefined == 99

isNull(obj) == obj = Undefined \/ obj = Null

FieldA(e) == e \div 2
FieldB(e) == e % 2

\* String(e): e.toString(), and the property name e is coerced to.
ToStr(e) ==
    IF e = Null THEN "null"
    ELSE IF e = Undefined THEN "undefined"
    ELSE IF FieldA(e) = 2 THEN "constructor"
    ELSE "s" \o ToString(FieldA(e))

\* The property names every plain object {} inherits from Object.prototype,
\* among the strings of this model.
InheritedNames == {"constructor"}

(***************************************************************************)
(* Equality comparers.                                                     *)
(***************************************************************************)
\* defaultEqComparer.getHash
defaultGetHash(obj) ==
    IF obj = Null THEN "null"
    ELSE IF obj = Undefined THEN "undefined"
    ELSE ToStr(obj)

\* The equality functions a caller passes: by field a, by field b; "strict"
\* is defaultEqComparer.equals (===).
EqualsFn(name, x, y) ==
    CASE name = "strict" -> x = y
      [] name = "byA" -> FieldA(x) = FieldA(y)
      [] name = "byB" -> FieldB(x) = FieldB(y)

\* The hash functions a caller passes: the field b as "b0"/"b1", one
\* constant, the field b as "s0"/"s1" (the strings other values have as
\* their string form); "default" is defaultEqComparer.getHash.
HashFn(name, x) ==
    CASE name = "default" -> defaultGetHash(x)
      [] name = "byB" -> "b" \o ToString(FieldB(x))
      [] name = "const" -> "h"
      [] name = "bName" -> "s" \o ToString(FieldB(x))

\* The eqComparer arguments: absent, a bare equality function, an object
\* with equals and/or getHash ("none": the property is missing).
ArgAbsent == [form |-> "absent", equals |-> "none", getHash |-> "none"]
ArgFunction(eq) == [form |-> "function", equals |-> eq, getHash |-> "none"]
ArgObject(eq, gh) == [form |-> "object", equals |-> eq, getHash |-> gh]

ensureEqComparer(eqComparer) ==
    IF eqComparer.form = "absent"
    THEN [equals |-> "strict", getHash |-> "default"]
    ELSE IF eqComparer.form = "object" /\ eqComparer.equals # "none"
                                       /\ eqComparer.getHash # "none"
    THEN [equals |-> eqComparer.equals, getHash |-> eqComparer.getHash]
    ELSE IF eqComparer.form = "function"
    THEN [equals |-> eqComparer.equals, getHash |-> "default"]
    ELSE [equals |-> IF eqComparer.equals # "none" THEN eqComparer.equals ELSE "strict",
          getHash |-> IF eqComparer.getHash # "none" THEN eqComparer.getHash ELSE "default"]

\* The comparer contract of the data model: equal elements have equal hashes.
ContractOK(c) ==
    \A x, y \in Elems : EqualsFn(c.equals, x, y) => HashFn(c.getHash, x) = HashFn(c.getHash, y)

AllCmpArgs ==
    {ArgAbsent, ArgFunction("byA"), ArgObject("byB", "byB"), ArgObject("none", "const"),
     ArgObject("none", "bName"), ArgObject("byA", "none"), ArgFunction("byB")}

\* The arguments whose resolved comparer keeps the contract.
CmpArgs == {a \in AllCmpArgs : ContractOK(ensureEqComparer(a))}

(***************************************************************************)
(* List (the buckets and the hash list of a Dictionary are Lists).         *)
(***************************************************************************)
listProto_add(list, elem) == Append(list, elem)

\* listProto.remove: shifts everything after the first element identical to
\* elem one place down and drops the last slot.
listProto_remove(list, elem) ==
    LET hits == {i \in 1..Len(list) : list[i] = elem}
    IN  IF hits = {}
        THEN [list |-> list, found |-> FALSE]
        ELSE LET i == CHOOSE j \in hits : \A k \in hits : j <= k
             IN  [list |-> SubSeq(list, 1, i - 1) \o SubSeq(list, i + 1, Len(list)),
                  found |-> TRUE]

(***************************************************************************)
(* Dictionary.  d.keys is the plain object _.keys: a function from its own *)
(* property names (hashes) to buckets; a bucket is a List of {key, value}. *)
(***************************************************************************)
NewDictionary == [length |-> 0, hashes |-> << >>, keys |-> << >>]

hasOwnProperty(obj, name) == name \in DOMAIN obj

\* The truthiness of obj[name] for a plain object holding Lists: an own
\* property is a List; an inherited one is a function of Object.prototype.
PropTruthy(obj, name) == name \in DOMAIN obj \/ name \in InheritedNames

\* A containsKey that compares with === whatever the comparer's equals is.
containsKey_Identity(hash, key, d, c) ==
    IF hasOwnProperty(d.keys, hash)
    THEN \E i \in 1..Len(d.keys[hash]) : d.keys[hash][i].key = key
    ELSE FALSE

\* containsKey(hash, key, privs): the bucket's contains() with the
\* comparer's equals applied to each pair's key.
containsKey(hash, key, d, c) ==
    IF hasOwnProperty(d.keys, hash)
    THEN \E i \in 1..Len(d.keys[hash]) : EqualsFn(c.equals, d.keys[hash][i].key, key)
    ELSE FALSE

dictProto_containsKey(d, c, key) == containsKey(HashFn(c.getHash, key), key, d, c)

\* dictProto.add.  err: "none", "duplicate" (the Error of line 987) or
\* "TypeError" (keys[hash] is an inherited property: it is truthy, no List
\* is created, and it has no add method).
dictProto_add(d, c, key, value) ==
    LET hash == HashFn(c.getHash, key)
    IN  IF containsKey(hash, key, d, c)
        THEN [d |-> d, err |-> "duplicate"]
        ELSE IF ~hasOwnProperty(d.keys, hash) /\ PropTruthy(d.keys, hash)
        THEN [d |-> d, err |-> "TypeError"]
        ELSE LET bucket == IF PropTruthy(d.keys, hash) THEN d.keys[hash] ELSE << >>
                 keys2 == [h \in DOMAIN d.keys \cup {hash} |->
                              IF h = hash
                              THEN listProto_add(bucket, [key |-> key, value |-> value])
                              ELSE d.keys[h]]
             IN  [d |-> [length |-> d.length + 1,
                         hashes |-> listProto_add(d.hashes, hash),
                         keys |-> keys2],
                  err |-> "none"]

\* A getKvpByKey that takes the first pair of the bucket without testing it.
getKvpByKey_FirstOfBucket(d, c, hash, key) ==
    IF ~hasOwnProperty(d.keys, hash)
    THEN [err |-> "notfound", elem |-> [key |-> Undefined, value |-> Undefined]]
    ELSE [err |-> "none", elem |-> d.keys[hash][1]]

\* getKvpByKey: the pair, or err "notfound" (no bucket, or first() finds no
\* matching pair in the bucket).
getKvpByKey(d, c, hash, key) ==
    IF ~hasOwnProperty(d.keys, hash)
    THEN [err |-> "notfound", elem |-> [key |-> Undefined, value |-> Undefined]]
    ELSE LET bucket == d.keys[hash]
             hits == {i \in 1..Len(bucket) : EqualsFn(c.equals, bucket[i].key, key)}
         IN  IF hits = {}
             THEN [err |-> "notfound", elem |-> [key |-> Undefined, value |-> Undefined]]
             ELSE [err |-> "none",
                   elem |-> bucket[CHOOSE j \in hits : \A k \in hits : j <= k]]

\* A get that returns undefined for a missing key instead of failing.
dictProto_get_UndefinedOnMissing(d, c, key) ==
    [err |-> "none", value |-> getKvpByKey(d, c, HashFn(c.getHash, key), key).elem.value]

dictProto_get(d, c, key) ==
    LET r == getKvpByKey(d, c, HashFn(c.getHash, key), key)
    IN  [err |-> r.err, value |-> r.elem.value]

\* dictProto.remove.  The bucket is looked up as this._.keys[key], under the
\* key's own string form, not under its hash: the lookup gives undefined or
\* an inherited function (TypeError on keys.remove), or whichever bucket is
\* stored under that name.
dictProto_remove(d, c, key) ==
    LET hash == HashFn(c.getHash, key)
        r == getKvpByKey(d, c, hash, key)
        name == ToStr(key)
    IN  IF r.err # "none"
        THEN [d |-> d, err |-> r.err]
        ELSE IF ~hasOwnProperty(d.keys, name)
        THEN [d |-> d, err |-> "TypeError"]
        ELSE LET rem == listProto_remove(d.keys[name], r.elem)
                 empty == Len(rem.list) = 0
                 keys2 == IF empty
                          THEN [h \in DOMAIN d.keys \ {name} |-> d.keys[h]]
                          ELSE [d.keys EXCEPT ![name] = rem.list]
                 hashes2 == IF empty
                            THEN listProto_remove(d.hashes, hash).list
                            ELSE d.hashes
             IN  [d |-> [length |-> d.length - 1, hashes |-> hashes2, keys |-> keys2],
                  err |-> "none"]

dictProto_count(d) == d.length

\* The pairs stored in the buckets.
StoredPairs(d) == UNION {{d.keys[h][i] : i \in 1..Len(d.keys[h])} : h \in DOMAIN d.keys}

\* new DictionaryIterator(dict): len is dict.length at construction;
\* currentKeys is undefined until the first bucket is read (hasKeys).
DictionaryIterator(d) ==
    [len |-> d.length, hashIndex |-> -1, hasKeys |-> FALSE, currentKeys |-> << >>,
     keyIndex |-> -1, current |-> [key |-> Undefined, value |-> Undefined]]

\* list[i] of a List, i counted from 0; undefined past the end.
ListAt(list, i) ==
    IF i < Len(list) THEN list[i + 1] ELSE [key |-> Undefined, value |-> Undefined]

\* DictionaryIterator.moveNext.  err "modified": dict.length is not the
\* length at construction; "TypeError": the hash list names a hash that has
\* no bucket, so currentKeys is undefined when currentKeys[keyIndex] is read.
DictionaryIterator_moveNext(d, di) ==
    IF d.length # di.len
    THEN [it |-> di, r |-> FALSE, err |-> "modified"]
    ELSE IF ~di.hasKeys \/ di.keyIndex = Len(di.currentKeys) - 1
    THEN IF di.hashIndex + 1 < Len(d.hashes)
         THEN IF ~hasOwnProperty(d.keys, d.hashes[di.hashIndex + 2])
              THEN [it |-> [di EXCEPT !.hashIndex = @ + 1, !.hasKeys = FALSE, !.keyIndex = 0,
                                      !.current = [key |-> Undefined, value |-> Undefined]],
                    r |-> FALSE, err |-> "TypeError"]
              ELSE [it |-> [di EXCEPT !.hashIndex = @ + 1, !.hasKeys = TRUE,
                                      !.currentKeys = d.keys[d.hashes[di.hashIndex + 2]],
                                      !.keyIndex = 0,
                                      !.current = ListAt(d.keys[d.hashes[di.hashIndex + 2]], 0)],
                    r |-> TRUE, err |-> "none"]
         ELSE [it |-> [di EXCEPT !.hashIndex = @ + 1,
                                 !.current = [key |-> Undefined, value |-> Undefined]],
               r |-> FALSE, err |-> "none"]
    ELSE [it |-> [di EXCEPT !.keyIndex = @ + 1,
                            !.current = ListAt(di.currentKeys, di.keyIndex + 1)],
          r |-> di.hashIndex <= Len(d.hashes) - 1, err |-> "none"]

\* forEach over a dictionary with a callback that pushes the element and
\* returns undefined (toArray): moveNext until it returns false or throws.
\* An empty bucket as currentKeys is never left (keyIndex only grows, moveNext
\* keeps returning true): err "diverges".
RECURSIVE DictionaryDrain(_, _, _)
DictionaryDrain_moved(d, m, acc) ==
    IF m.err # "none" THEN [arr |-> acc, err |-> m.err, it |-> m.it]
    ELSE IF ~m.r THEN [arr |-> acc, err |-> "none", it |-> m.it]
    ELSE IF m.it.hasKeys /\ Len(m.it.currentKeys) = 0
    THEN [arr |-> acc, err |-> "diverges", it |-> m.it]
    ELSE DictionaryDrain(d, m.it, Append(acc, m.it.current))

DictionaryDrain(d, di, acc) ==
    DictionaryDrain_moved(d, DictionaryIterator_moveNext(d, di), acc)

\* toArray() of a Dictionary: enumProto.toArray over its DictionaryIterator.
dictProto_toArray(d) == DictionaryDrain(d, DictionaryIterator(d), << >>)

\* getKvps(selector), called by getKeys and getValues as a plain function:
\* in this strict-mode module its this is undefined, and reading this._
\* throws a TypeError before anything is collected.
getKvps(d, selector) == [err |-> "TypeError", list |-> << >>]

dictProto_getKeys(d) == getKvps(d, "key")

dictProto_getValues(d) == getKvps(d, "value")

(***************************************************************************)
(* The dictionary as a state machine: a Dictionary constructed with some   *)
(* comparer argument, then any calls of add, remove, get and containsKey.  *)
(***************************************************************************)
\* The values the variables of the facades keep while only a dictionary is
\* used, and those of the dictionary while only facades are used.
NoSlot == [pc |-> "none", log |-> << >>]
MachineIdle ==
    /\ arrays = [A |-> << >>, B |-> << >>]
    /\ fac = << >>
    /\ its = [s \in 1..MaxEnum |-> NoSlot]
    /\ mods = 0

NoCall == [op |-> "new", key |-> 0, value |-> 0, err |-> "none", ret |-> 0, found |-> FALSE]

InitDict ==
    /\ cmpArg \in CmpArgs
    /\ dict = NewDictionary
    /\ added = {}
    /\ removes = 0
    /\ last = NoCall
    /\ nops = 0
    /\ MachineIdle

cmp == ensureEqComparer(cmpArg)

Add(key, value) ==
    /\ nops < MaxOps
    /\ LET r == dictProto_add(dict, cmp, key, value)
       IN  /\ dict' = r.d
           /\ added' = IF r.err = "none" THEN added \cup {[key |-> key, value |-> value]}
                       ELSE added
           /\ last' = [op |-> "add", key |-> key, value |-> value, err |-> r.err,
                       ret |-> 0, found |-> FALSE]
    /\ nops' = nops + 1
    /\ UNCHANGED <<cmpArg, removes>>
    /\ UNCHANGED mvars

Remove(key) ==
    /\ nops < MaxOps
    /\ LET r == dictProto_remove(dict, cmp, key)
       IN  /\ dict' = r.d
           /\ last' = [op |-> "remove", key |-> key, value |-> 0, err |-> r.err,
                       ret |-> 0, found |-> FALSE]
    /\ removes' = removes + 1
    /\ nops' = nops + 1
    /\ UNCHANGED <<cmpArg, added>>
    /\ UNCHANGED mvars

Get(key) ==
    /\ nops < MaxOps
    /\ LET r == dictProto_get(dict, cmp, key)
       IN  last' = [op |-> "get", key |-> key, value |-> 0, err |-> r.err,
                    ret |-> r.value, found |-> FALSE]
    /\ nops' = nops + 1
    /\ UNCHANGED <<dict, cmpArg, added, removes>>
    /\ UNCHANGED mvars

ContainsKey(key) ==
    /\ nops < MaxOps
    /\ last' = [op |-> "containsKey", key |-> key, value |-> 0, err |-> "none",
                ret |-> 0, found |-> dictProto_containsKey(dict, cmp, key)]
    /\ nops' = nops + 1
    /\ UNCHANGED <<dict, cmpArg, added, removes>>
    /\ UNCHANGED mvars

\* d.toArray(): ret is the array, err the exception it ended with.
DictToArray_result(t) ==
    [op |-> "toArray", key |-> 0, value |-> 0, err |-> t.err, ret |-> t.arr, found |-> FALSE]

DictToArray ==
    /\ nops < MaxOps
    /\ last' = DictToArray_result(dictProto_toArray(dict))
    /\ nops' = nops + 1
    /\ UNCHANGED <<dict, cmpArg, added, removes>>
    /\ UNCHANGED mvars

\* d.getKeys() and d.getValues(): ret is the returned List.
GetKeys ==
    /\ nops < MaxOps
    /\ last' = [op |-> "getKeys", key |-> 0, value |-> 0, err |-> dictProto_getKeys(dict).err,
                ret |-> dictProto_getKeys(dict).list, found |-> FALSE]
    /\ nops' = nops + 1
    /\ UNCHANGED <<dict, cmpArg, added, removes>>
    /\ UNCHANGED mvars

GetValues ==
    /\ nops < MaxOps
    /\ last' = [op |-> "getValues", key |-> 0, value |-> 0, err |-> dictProto_getValues(dict).err,
                ret |-> dictProto_getValues(dict).list, found |-> FALSE]
    /\ nops' = nops + 1
    /\ UNCHANGED <<dict, cmpArg, added, removes>>
    /\ UNCHANGED mvars

NextDict ==
    \/ \E key \in Elems, value \in Vals : Add(key, value)
    \/ \E key \in Elems : Remove(key)
    \/ \E key \in Elems : Get(key)
    \/ \E key \in Elems : ContainsKey(key)
    \/ DictToArray
    \/ GetKeys
    \/ GetValues

SpecDict == InitDict /\ [][NextDict]_vars

(***************************************************************************)
(* Sequence facades and their iterators.                                   *)
(*                                                                         *)
(* A facade is new Enumerable(A) for the backing array A, wrapped by the   *)
(* operator calls made on it: a sequence of stages, stage n wrapping the   *)
(* facade of the stages before it.  The second operand of union, unionAll  *)
(* and except is new Enumerable(B) for a second backing array B; distinct  *)
(* passes the module's private empty facade.                               *)
(*                                                                         *)
(* An iterator of a facade of n stages is the chain of iterator objects    *)
(* its factory builds: it.root is the ArrayIterator on A (level 0) and     *)
(* it.lv[n] the closure state of the iterator of stage n, whose upstream   *)
(* iterator is level n - 1.  An OrderedIterator builds no upstream         *)
(* iterator, so the levels under it do not exist ("unborn").               *)
(*                                                                         *)
(* Every operation returns the changed chain with its result r, the        *)
(* exception it ended with (err, "none" if it returned) and the log of the *)
(* calls it made on user callbacks and on the array iterators.             *)
(***************************************************************************)
Ev(ev, x, i) == [ev |-> ev, x |-> x, i |-> i]

\* predicate callbacks ("none": the argument is omitted)
Predicate(f, x, index) ==
    CASE f = "none" -> TRUE
      [] f = "bIs0" -> FieldB(x) = 0
      [] f = "evenIndex" -> index % 2 = 0

\* selector callbacks ("none": the argument is omitted)
Selector(f, x, index) ==
    CASE f = "none" -> x
      [] f = "clearB" -> 2 * FieldA(x)
      [] f = "plusIndex" -> (x + index) % (MaxElem + 1)

\* keySelector callbacks; aNull gives null or undefined for a = 0
KeySelector(f, x) ==
    CASE f = "a" -> FieldA(x)
      [] f = "b" -> FieldB(x)
      [] f = "aNull" -> IF FieldA(x) = 0 THEN (IF FieldB(x) = 0 THEN Null ELSE Undefined)
                        ELSE FieldA(x)

\* The array behind a facade name; the private empty facade wraps [].
ArrayOf(arrs, name) == IF name = "empty" THEN << >> ELSE arrs[name]

ArrayIterator(arr) == [born |-> TRUE, len |-> Len(arr), index |-> -1]

Unborn == [born |-> FALSE, len |-> 0, index |-> -1]

\* An ArrayIterator that starts over after it has reported the end.
ArrayIterator_moveNext_Restarts(ai, arr) ==
    IF Len(arr) # ai.len
    THEN [ai |-> ai, r |-> FALSE, err |-> "modified"]
    ELSE IF ai.index + 1 < ai.len
    THEN [ai |-> [ai EXCEPT !.index = @ + 1], r |-> TRUE, err |-> "none"]
    ELSE [ai |-> [ai EXCEPT !.index = -1], r |-> FALSE, err |-> "none"]

\* An ArrayIterator that never looks at the array's length again.
ArrayIterator_moveNext_NoCheck(ai, arr) ==
    [ai |-> [ai EXCEPT !.index = @ + 1], r |-> ai.index + 1 < ai.len, err |-> "none"]

ArrayIterator_moveNext(ai, arr) ==
    IF Len(arr) # ai.len
    THEN [ai |-> ai, r |-> FALSE, err |-> "modified"]
    ELSE [ai |-> [ai EXCEPT !.index = @ + 1], r |-> ai.index + 1 < ai.len, err |-> "none"]

ArrayIterator_current(ai, arr) ==
    IF ai.index >= 0 /\ ai.index < Len(arr) THEN arr[ai.index + 1] ELSE Undefined

\* A compare without the three tests for null and undefined.
compare_NaturalOnly(a, b) ==
    IF a > b THEN 1
    ELSE IF a < b THEN -1
    ELSE 0

\* OrderedIterator's compare
compare(a, b) ==
    IF ~isNull(a) /\ isNull(b) THEN 1
    ELSE IF isNull(a) /\ ~isNull(b) THEN -1
    ELSE IF isNull(a) /\ isNull(b) THEN 0
    ELSE IF a > b THEN 1
    ELSE IF a < b THEN -1
    ELSE 0

\* A getNextSource that never leaves the link it is given: the link is
\* taken for the root of an ordering of its own.
getNextSource_NewOrdering(stages, next, currentSource) == next

\* getNextSource(source, currentSource) on the stage numbers of a facade:
\* walks from link `next` towards the root of the ordering chain and stops
\* at the link whose source is currentSource (0: undefined, the walk ends
\* at the root link, whose source is no OrderedEnumerable).
RECURSIVE getNextSource(_, _, _)
getNextSource(stages, next, currentSource) ==
    IF next > 1 /\ stages[next - 1].op = "order" /\ next - 1 # currentSource
    THEN getNextSource(stages, next - 1, currentSource)
    ELSE next

RECURSIVE OrderedComparer(_, _, _, _, _)

\* A comparator that would not scale the result by the link's direction.
OrderedComparer_IgnoreDescending(stages, source, currentSource, x, y) ==
    LET link == stages[currentSource]
        result == compare(KeySelector(link.key, x), KeySelector(link.key, y))
    IN  IF result # 0 THEN result
        ELSE IF currentSource = source THEN result
        ELSE OrderedComparer(stages, source, getNextSource(stages, source, currentSource), x, y)

\* The comparator OrderedIterator hands to qsort, from link currentSource on.
OrderedComparer(stages, source, currentSource, x, y) ==
    LET link == stages[currentSource]
        result == compare(KeySelector(link.key, x), KeySelector(link.key, y)) * link.descending
    IN  IF result # 0 THEN result
        ELSE IF currentSource = source THEN result
        ELSE OrderedComparer(stages, source, getNextSource(stages, source, currentSource), x, y)

\* The elements of s after the first that pass test(item), in order.
RECURSIVE Partition(_, _, _, _, _, _)
Partition(s, i, stages, source, parent, smaller) ==
    IF i > Len(s) THEN << >>
    ELSE LET c == OrderedComparer(stages, source, parent, s[i], s[1])
             keep == IF smaller THEN c <= 0 ELSE c > 0
         IN  (IF keep THEN <<s[i]>> ELSE << >>)
                 \o Partition(s, i + 1, stages, source, parent, smaller)

\* qsort with OrderedIterator's comparer: the first element is the pivot,
\* the rest is split into <= and >, each part is sorted, and the result is
\* smaller, pivot, bigger.
RECURSIVE qsort(_, _, _, _)
qsort(s, stages, source, parent) ==
    IF Len(s) < 2 THEN s
    ELSE LET head == s[1]
             smaller == Partition(s, 2, stages, source, parent, TRUE)
             bigger == Partition(s, 2, stages, source, parent, FALSE)
         IN  qsort(smaller, stages, source, parent) \o <<head>>
                 \o qsort(bigger, stages, source, parent)

(***************************************************************************)
(* The stages of a facade (the operator calls) and the iterator chain.     *)
(***************************************************************************)
WhereStage(predicate) == [op |-> "where", f |-> predicate]
SelectStage(selector) == [op |-> "select", f |-> selector]
DefaultIfEmptyStage(defaultValue) == [op |-> "defaultIfEmpty", dv |-> defaultValue]
\* unionAll(other): no comparer reaches the UnionIterator
UnionAllStage == [op |-> "union", second |-> "B", dedup |-> FALSE, eq |-> ArgAbsent]
\* union(other, eqComparer)
UnionStage(eqComparer) == [op |-> "union", second |-> "B", dedup |-> TRUE, eq |-> eqComparer]
\* distinct(eqComparer) is union(empty, eqComparer)
DistinctStage(eqComparer) == [op |-> "union", second |-> "empty", dedup |-> TRUE, eq |-> eqComparer]
ExceptStage(eqComparer) == [op |-> "except", eq |-> eqComparer]
\* new OrderedEnumerable(this, keySelector, descending)
OrderStage(keySelector, descending) ==
    [op |-> "order", key |-> keySelector, descending |-> IF descending THEN -1 ELSE 1]

Res(it, r, err, log) == [it |-> it, r |-> r, err |-> err, log |-> log]

SetLv(it, n, s) == [it EXCEPT !.lv[n] = s]

\* The result res of a call made after the events of log.
After(log, res) == [res EXCEPT !.log = log \o @]

RECURSIVE GetIterator(_, _, _)
RECURSIVE MoveNext(_, _, _)
RECURSIVE Current(_, _, _)
RECURSIVE CurrentLog(_, _, _)
RECURSIVE Drain(_, _, _, _, _)
RECURSIVE ExceptFill(_, _, _, _)

\* The constructor of ExceptIterator draining `other` (the array arr) into
\* the dictionary: other.forEach(elem => d.containsKey(elem) || d.add(elem));
\* ad is what d.add(elem) gave.
ExceptFill_added(ad, d, c, arr, i) ==
    IF ad.err # "none" THEN [d |-> d, err |-> ad.err]
    ELSE ExceptFill(ad.d, c, arr, i + 1)

ExceptFill(d, c, arr, i) ==
    IF i > Len(arr) THEN [d |-> d, err |-> "none"]
    ELSE IF dictProto_containsKey(d, c, arr[i]) THEN ExceptFill(d, c, arr, i + 1)
    ELSE ExceptFill_added(dictProto_add(d, c, arr[i], Undefined), d, c, arr, i)

\* The events of one full enumeration of the array named `name`.
DrainLog(name, len) ==
    <<Ev("getIterator" \o name, 0, 0)>> \o [j \in 1..len + 1 |-> Ev("moveNext" \o name, 0, 0)]

\* The closure state of each iterator when its constructor returns.
WhereIterator(st) == [op |-> "where", f |-> st.f, index |-> -1]

SelectIterator(st) == [op |-> "select", f |-> st.f, index |-> -1, next |-> FALSE]

DefaultIfEmptyIterator(st) ==
    [op |-> "defaultIfEmpty", dv |-> st.dv, current |-> Undefined, empty |-> TRUE]

UnionIterator(st, arrs) ==
    [op |-> "union", second |-> st.second, dedup |-> st.dedup,
     eq |-> ensureEqComparer(st.eq),
     sec |-> ArrayIterator(ArrayOf(arrs, st.second)),
     current |-> Undefined, moveFirst |-> TRUE, d |-> NewDictionary]

ExceptIterator(st, fill) == [op |-> "except", eq |-> ensureEqComparer(st.eq), d |-> fill.d]

OrderedIterator ==
    [op |-> "order", realized |-> FALSE, arr |-> << >>, len |-> 0, index |-> -1]

\* The chain `up` of the upstream iterator with the iterator s on top.
Chain(up, stages, n, s, err, log) ==
    Res([stages |-> SubSeq(stages, 1, n), root |-> up.it.root, lv |-> Append(up.it.lv, s)],
        TRUE, err, up.log \o log)

\* An ExceptIterator whose constructor leaves `other` alone.
GetIterator_except_NoDrain(up, stages, n, arrs, fill) ==
    Chain(up, stages, n, ExceptIterator(stages[n], [d |-> NewDictionary, err |-> "none"]),
          "none", <<Ev("getIteratorB", 0, 0)>>)

\* new ExceptIterator(self, other, eqComparer): fill is what draining
\* `other` into the dictionary gave.
GetIterator_except(up, stages, n, arrs, fill) ==
    Chain(up, stages, n, ExceptIterator(stages[n], fill), fill.err,
          IF fill.err = "none" THEN DrainLog("B", Len(arrs.B))
          ELSE <<Ev("getIteratorB", 0, 0)>>)

\* The iterator constructors of stage n, on the upstream iterator `up`.
GetIterator_wrap(up, stages, n, arrs) ==
    LET st == stages[n]
    IN  IF up.err # "none" THEN up
        ELSE CASE st.op = "where" -> Chain(up, stages, n, WhereIterator(st), "none", << >>)
               [] st.op = "select" -> Chain(up, stages, n, SelectIterator(st), "none", << >>)
               [] st.op = "defaultIfEmpty" ->
                    Chain(up, stages, n, DefaultIfEmptyIterator(st), "none", << >>)
               [] st.op = "union" ->
                    Chain(up, stages, n, UnionIterator(st, arrs), "none",
                          <<Ev("getIterator" \o st.second, 0, 0)>>)
               [] st.op = "except" ->
                    GetIterator_except(up, stages, n, arrs,
                        ExceptFill(NewDictionary, ensureEqComparer(st.eq), arrs.B, 1))

\* facade.getIterator() for the facade of the first n stages: the iterator
\* factories of lines 452-454, 594, 671, 734, 742, 790, 798 and 1079 with
\* the iterator constructors they call.
GetIterator(stages, n, arrs) ==
    IF n = 0
    THEN Res([stages |-> << >>, root |-> ArrayIterator(arrs.A), lv |-> << >>],
             TRUE, "none", <<Ev("getIteratorA", 0, 0)>>)
    ELSE IF stages[n].op = "order"
    THEN Res([stages |-> SubSeq(stages, 1, n),
              root |-> Unborn,
              lv |-> [j \in 1..n |-> IF j < n THEN [op |-> "unborn"] ELSE OrderedIterator]],
             TRUE, "none", << >>)
    ELSE GetIterator_wrap(GetIterator(stages, n - 1, arrs), stages, n, arrs)

\* The iterators below take moveNext, the MoveNext() of the iterators of a
\* chain (MoveNext, defined after them); `up` is what the upstream
\* iterator's MoveNext() returned, x and clog what its current() returned
\* and the callbacks that call made.

PredicateLog(f, x, index) == IF f = "none" THEN << >> ELSE <<Ev("predicate", x, index)>>

\* A WhereIterator whose index counts the elements it yielded.
WhereIterator_test_OutputIndex(up, n, arrs, x, clog) ==
    LET s == up.it.lv[n]
    IN  IF Predicate(s.f, x, s.index)
        THEN Res(up.it, TRUE, "none", up.log \o clog \o PredicateLog(s.f, x, s.index))
        ELSE After(up.log \o clog \o PredicateLog(s.f, x, s.index),
                   MoveNext(SetLv(up.it, n, [s EXCEPT !.index = @ - 1]), n, arrs))

WhereIterator_test(up, n, arrs, x, clog) ==
    LET s == up.it.lv[n]
    IN  IF Predicate(s.f, x, s.index)
        THEN Res(up.it, TRUE, "none", up.log \o clog \o PredicateLog(s.f, x, s.index))
        ELSE After(up.log \o clog \o PredicateLog(s.f, x, s.index), MoveNext(up.it, n, arrs))

WhereIterator_moved(up, n, arrs) ==
    IF up.err # "none" \/ ~up.r THEN up
    ELSE WhereIterator_test(up, n, arrs, Current(up.it, n - 1, arrs),
                            CurrentLog(up.it, n - 1, arrs))

WhereIterator_moveNext(it, n, arrs) ==
    WhereIterator_moved(MoveNext(SetLv(it, n, [it.lv[n] EXCEPT !.index = @ + 1]), n - 1, arrs),
                        n, arrs)

\* A DefaultIfEmptyIterator that forgets that the source had elements.
DefaultIfEmptyIterator_moved_KeepsEmpty(up, n, arrs) ==
    LET s == up.it.lv[n]
    IN  IF up.err # "none" THEN up
        ELSE IF up.r
        THEN Res(SetLv(up.it, n, [s EXCEPT !.current = Current(up.it, n - 1, arrs)]),
                 TRUE, "none", up.log \o CurrentLog(up.it, n - 1, arrs))
        ELSE IF s.empty
        THEN Res(SetLv(up.it, n, [s EXCEPT !.empty = FALSE, !.current = s.dv]),
                 TRUE, "none", up.log)
        ELSE up

DefaultIfEmptyIterator_moved(up, n, arrs) ==
    LET s == up.it.lv[n]
    IN  IF up.err # "none" THEN up
        ELSE IF up.r
        THEN Res(SetLv(up.it, n, [s EXCEPT !.empty = FALSE,
                                           !.current = Current(up.it, n - 1, arrs)]),
                 TRUE, "none", up.log \o CurrentLog(up.it, n - 1, arrs))
        ELSE IF s.empty
        THEN Res(SetLv(up.it, n, [s EXCEPT !.empty = FALSE, !.current = s.dv]),
                 TRUE, "none", up.log)
        ELSE up

DefaultIfEmptyIterator_moveNext(it, n, arrs) ==
    DefaultIfEmptyIterator_moved(
        MoveNext(SetLv(it, n, [it.lv[n] EXCEPT !.current = Undefined]), n - 1, arrs), n, arrs)

\* A SelectIterator that takes every advance of its source for a success.
SelectIterator_moved_NextAlways(up, n) ==
    IF up.err # "none" THEN up
    ELSE Res(SetLv(up.it, n, [up.it.lv[n] EXCEPT !.next = TRUE]), up.r, "none", up.log)

SelectIterator_moved(up, n) ==
    IF up.err # "none" THEN up
    ELSE Res(SetLv(up.it, n, [up.it.lv[n] EXCEPT !.next = up.r]), up.r, "none", up.log)

SelectIterator_moveNext(it, n, arrs) ==
    SelectIterator_moved(MoveNext(SetLv(it, n, [it.lv[n] EXCEPT !.index = @ + 1]), n - 1, arrs), n)

\* The events of the iterators that live only inside the toArray() call of
\* an OrderedIterator.
InToArray(log) ==
    [j \in DOMAIN log |->
        IF log[j].ev \in {"moveNextA", "moveNextB", "moveNextempty"}
        THEN [log[j] EXCEPT !.ev = "toArray." \o @] ELSE log[j]]

\* The first MoveNext() of an OrderedIterator, once the source is sorted.
OrderedIterator_sorted(it, n, arr, log) ==
    Res(SetLv(it, n, [it.lv[n] EXCEPT !.realized = TRUE, !.arr = arr, !.len = Len(arr),
                                      !.index = 0]),
        0 < Len(arr), "none", log)

\* ... once parent._.source.toArray() gave src.
OrderedIterator_realized(it, n, parent, src) ==
    IF src.err # "none" THEN Res(it, FALSE, src.err, InToArray(src.log))
    ELSE OrderedIterator_sorted(it, n, qsort(src.arr, it.stages, n, parent),
             InToArray(src.log) \o (IF Len(src.arr) < 2 THEN << >>
                                    ELSE <<Ev("keySelector", Len(src.arr), 0)>>))

OrderedIterator_realize(it, n, parent, arrs) ==
    OrderedIterator_realized(it, n, parent,
        Drain(GetIterator(it.stages, parent - 1, arrs), parent - 1, arrs, << >>, << >>))

\* An OrderedIterator that evaluates its source again at every advance.
OrderedIterator_moveNext_Again(it, n, arrs) ==
    IF it.lv[n].index = -1
    THEN OrderedIterator_realize(it, n, getNextSource(it.stages, n, 0), arrs)
    ELSE Res(SetLv(it, n, [it.lv[n] EXCEPT !.index = @ + 1]),
             it.lv[n].index + 1 < it.lv[n].len, "none",
             OrderedIterator_realize(it, n, getNextSource(it.stages, n, 0), arrs).log)

OrderedIterator_moveNext(it, n, arrs) ==
    IF it.lv[n].index = -1
    THEN OrderedIterator_realize(it, n, getNextSource(it.stages, n, 0), arrs)
    ELSE Res(SetLv(it, n, [it.lv[n] EXCEPT !.index = @ + 1]),
             it.lv[n].index + 1 < it.lv[n].len, "none", << >>)

\* d.add(elem) of a UnionIterator or ExceptIterator gave ad.
Added(it, n, ad, log) ==
    IF ad.err # "none" THEN Res(it, FALSE, ad.err, log)
    ELSE Res(SetLv(it, n, [it.lv[n] EXCEPT !.d = ad.d]), TRUE, "none", log)

\* secondIterator.MoveNext() of a UnionIterator
UnionIterator_second(it, n, arrs) ==
    LET a == ArrayIterator_moveNext(it.lv[n].sec, ArrayOf(arrs, it.lv[n].second))
    IN  Res(SetLv(it, n, [it.lv[n] EXCEPT !.sec = a.ai]), a.r, a.err,
            <<Ev("moveNext" \o it.lv[n].second, n, 0)>>)

\* A move(iterator) with the test of alreadyUnioned inverted.
UnionIterator_found_Inverted(up, n, arrs, current, log) ==
    LET s1 == [up.it.lv[n] EXCEPT !.current = current]
        it1 == SetLv(up.it, n, s1)
    IN  IF ~s1.dedup THEN Res(it1, TRUE, "none", log)
        ELSE IF dictProto_containsKey(s1.d, s1.eq, current)
        THEN Res(it1, TRUE, "none", log)
        ELSE After(log, MoveNext(
                 SetLv(it1, n, [s1 EXCEPT !.d = dictProto_add(s1.d, s1.eq, current, Undefined).d]),
                 n, arrs))

\* move(iterator) of UnionIterator from `current = iterator.current()` on;
\* its MoveNext(iterator) is the MoveNext() of level n of the chain.
UnionIterator_found(up, n, arrs, current, log) ==
    LET s1 == [up.it.lv[n] EXCEPT !.current = current]
        it1 == SetLv(up.it, n, s1)
    IN  IF ~s1.dedup THEN Res(it1, TRUE, "none", log)
        ELSE IF dictProto_containsKey(s1.d, s1.eq, current)
        THEN After(log, MoveNext(it1, n, arrs))
        ELSE Added(it1, n, dictProto_add(s1.d, s1.eq, current, Undefined), log)

UnionIterator_moved(up, n, arrs, first) ==
    IF up.err # "none" \/ ~up.r THEN up
    ELSE UnionIterator_found(up, n, arrs,
             IF first THEN Current(up.it, n - 1, arrs)
             ELSE ArrayIterator_current(up.it.lv[n].sec, ArrayOf(arrs, up.it.lv[n].second)),
             up.log \o (IF first THEN CurrentLog(up.it, n - 1, arrs) ELSE << >>))

\* move(iterator) of UnionIterator; first: iterator is firstIterator.
UnionIterator_move(it, n, arrs, first) ==
    UnionIterator_moved(IF first THEN MoveNext(it, n - 1, arrs)
                        ELSE UnionIterator_second(it, n, arrs),
                        n, arrs, first)

\* A moveNext that advances the second iterator along with the first.
UnionIterator_first_AdvancesSecond(m, n, arrs) ==
    IF m.err # "none" THEN m
    ELSE IF ~m.r
    THEN After(m.log, MoveNext(SetLv(m.it, n, [m.it.lv[n] EXCEPT !.moveFirst = FALSE]),
                               n, arrs))
    ELSE Res(SetLv(UnionIterator_second(m.it, n, arrs).it, n,
                   [UnionIterator_second(m.it, n, arrs).it.lv[n] EXCEPT !.moveFirst = TRUE]),
             TRUE, "none", m.log \o UnionIterator_second(m.it, n, arrs).log)

\* moveFirst = move(firstIterator) gave m.
UnionIterator_first(m, n, arrs) ==
    IF m.err # "none" THEN m
    ELSE IF ~m.r
    THEN After(m.log, MoveNext(SetLv(m.it, n, [m.it.lv[n] EXCEPT !.moveFirst = FALSE]),
                               n, arrs))
    ELSE Res(SetLv(m.it, n, [m.it.lv[n] EXCEPT !.moveFirst = TRUE]), TRUE, "none", m.log)

UnionIterator_moveNext(it, n, arrs) ==
    IF it.lv[n].moveFirst
    THEN UnionIterator_first(
             UnionIterator_move(SetLv(it, n, [it.lv[n] EXCEPT !.current = Undefined]),
                                n, arrs, TRUE),
             n, arrs)
    ELSE UnionIterator_move(SetLv(it, n, [it.lv[n] EXCEPT !.current = Undefined]),
                            n, arrs, FALSE)

ExceptIterator_test(up, n, arrs, x, clog) ==
    LET s == up.it.lv[n]
    IN  IF ~dictProto_containsKey(s.d, s.eq, x)
        THEN Added(up.it, n, dictProto_add(s.d, s.eq, x, Undefined), up.log \o clog \o clog)
        ELSE After(up.log \o clog, MoveNext(up.it, n, arrs))

ExceptIterator_moved(up, n, arrs) ==
    IF up.err # "none" \/ ~up.r THEN up
    ELSE ExceptIterator_test(up, n, arrs, Current(up.it, n - 1, arrs),
                             CurrentLog(up.it, n - 1, arrs))

ExceptIterator_moveNext(it, n, arrs) ==
    ExceptIterator_moved(MoveNext(it, n - 1, arrs), n, arrs)

\* MoveNext() of the ArrayIterator on A at the root of the chain.
Root_moveNext(it, m) ==
    Res([it EXCEPT !.root = m.ai], m.r, m.err, <<Ev("moveNextA", 0, 0)>>)

\* MoveNext() of the iterator at level n of the chain.
MoveNext(it, n, arrs) ==
    IF n = 0
    THEN Root_moveNext(it, ArrayIterator_moveNext(it.root, arrs.A))
    ELSE CASE it.lv[n].op = "where" -> WhereIterator_moveNext(it, n, arrs)
           [] it.lv[n].op = "select" -> SelectIterator_moveNext(it, n, arrs)
           [] it.lv[n].op = "defaultIfEmpty" ->
                DefaultIfEmptyIterator_moveNext(it, n, arrs)
           [] it.lv[n].op = "union" -> UnionIterator_moveNext(it, n, arrs)
           [] it.lv[n].op = "except" -> ExceptIterator_moveNext(it, n, arrs)
           [] it.lv[n].op = "order" -> OrderedIterator_moveNext(it, n, arrs)

\* current() of the iterator at level n.  No current() changes any state.
Current(it, n, arrs) ==
    IF n = 0 THEN ArrayIterator_current(it.root, arrs.A)
    ELSE LET s == it.lv[n]
         IN  CASE s.op = "where" -> Current(it, n - 1, arrs)
               [] s.op = "select" ->
                    IF s.next THEN Selector(s.f, Current(it, n - 1, arrs), s.index)
                    ELSE Undefined
               [] s.op = "defaultIfEmpty" -> s.current
               [] s.op = "union" -> s.current
               [] s.op = "except" -> Current(it, n - 1, arrs)
               [] s.op = "order" ->
                    IF s.realized /\ s.index >= 0 /\ s.index < Len(s.arr)
                    THEN s.arr[s.index + 1] ELSE Undefined

\* The selector calls one current() at level n makes.
CurrentLog(it, n, arrs) ==
    IF n = 0 THEN << >>
    ELSE LET s == it.lv[n]
         IN  CASE s.op \in {"where", "except"} -> CurrentLog(it, n - 1, arrs)
               [] s.op = "select" ->
                    IF s.next
                    THEN CurrentLog(it, n - 1, arrs)
                            \o (IF s.f = "none" THEN << >>
                                ELSE <<Ev("selector", Current(it, n - 1, arrs), s.index)>>)
                    ELSE << >>
               [] OTHER -> << >>

\* One turn of the loop of toArray()'s forEach: MoveNext() gave m.
Drain_moved(m, n, arrs, acc, log) ==
    IF m.err # "none" THEN [arr |-> acc, err |-> m.err, log |-> log \o m.log]
    ELSE IF ~m.r THEN [arr |-> acc, err |-> "none", log |-> log \o m.log]
    ELSE Drain(Res(m.it, TRUE, "none", << >>), n, arrs,
               Append(acc, Current(m.it, n, arrs)),
               log \o m.log \o CurrentLog(m.it, n, arrs))

\* toArray(): forEach with a callback that pushes the element and returns
\* undefined, from the result g of getIterator() on.
Drain(g, n, arrs, acc, log) ==
    IF g.err # "none" THEN [arr |-> acc, err |-> g.err, log |-> log \o g.log]
    ELSE Drain_moved(MoveNext(g.it, n, arrs), n, arrs, acc, log \o g.log)

enumProto_toArray(stages, arrs) ==
    Drain(GetIterator(stages, Len(stages), arrs), Len(stages), arrs, << >>, << >>)

(***************************************************************************)
(* Facades as a state machine: the caller holds two arrays, builds a       *)
(* facade over A operator call by operator call, enumerates facades with   *)
(* forEach (several enumerations may be in progress at once: a callback    *)
(* may start another one) and may change the arrays in between.            *)
(***************************************************************************)
RECURSIVE SeqsUpTo(_, _)
SeqsUpTo(S, n) == IF n = 0 THEN {<< >>} ELSE SeqsUpTo(S, n - 1) \cup [1..n -> S]

Slots == 1..MaxEnum

Predicates == {"none", "bIs0", "evenIndex"}
Selectors == {"none", "clearB", "plusIndex"}
KeySelectors == {"a", "b", "aNull"}

\* The callbacks, comparers and elements the facade machine draws from.
ArrElems == 0..MaxArrElem
SomePredicates == {"bIs0", "evenIndex"}
SomeSelectors == {"clearB", "plusIndex"}
SomeKeySelectors == {"a", "b"}
SomeCmpArgs == {ArgAbsent, ArgObject("byB", "byB")}

\* What a forEach callback returns: null, undefined, false, true.
CallbackReturns == {Null, Undefined, 0, 1}
Falsy(v) == isNull(v) \/ v = 0

DictIdle ==
    /\ dict = NewDictionary
    /\ cmpArg = ArgAbsent
    /\ added = {}
    /\ removes = 0
    /\ last = NoCall
    /\ nops = 0

Init ==
    /\ arrays \in [A : SeqsUpTo(ArrElems, MaxLen), B : SeqsUpTo(ArrElems, MaxLenB)]
    /\ fac = << >>
    /\ its = [s \in Slots |-> NoSlot]
    /\ mods = 0
    /\ DictIdle

\* An operator call that would make the iterator of the new facade at once.
Wrap_Eager(stage) ==
    /\ Len(fac) < MaxStages
    /\ fac' = Append(fac, stage)
    /\ its' = [its EXCEPT ![1] =
                  [pc |-> "run", err |-> "none", fac |-> fac',
                   it |-> GetIterator(fac', Len(fac'), arrays).it, index |-> 0,
                   out |-> << >>, log |-> << >>]]
    /\ UNCHANGED <<arrays, mods>>
    /\ UNCHANGED dvars

\* An operator call on the facade: returns the facade wrapped in one more
\* stage (lines 592-597, 607-609, 668-673, 731-745, 787-800, 829-843,
\* 1099-1113).
Wrap(stage) ==
    /\ Len(fac) < MaxStages
    /\ fac' = Append(fac, stage)
    /\ UNCHANGED <<arrays, its, mods>>
    /\ UNCHANGED dvars

Filter(predicate) == Wrap(WhereStage(predicate))
Map(selector) == Wrap(SelectStage(selector))
DefaultIfEmpty(defaultValue) == Wrap(DefaultIfEmptyStage(defaultValue))
UnionAll == Wrap(UnionAllStage)
Union(eqComparer) == Wrap(UnionStage(eqComparer))
Distinct(eqComparer) == Wrap(DistinctStage(eqComparer))
Except(eqComparer) == Wrap(ExceptStage(eqComparer))
OrderBy(keySelector) == Wrap(OrderStage(keySelector, FALSE))
OrderByDescending(keySelector) == Wrap(OrderStage(keySelector, TRUE))

IsOrdered == fac # << >> /\ fac[Len(fac)].op = "order"

\* The number of sort keys of the OrderedEnumerable on top of the facade.
RECURSIVE OrderKeys(_)
OrderKeys(f) ==
    IF f = << >> \/ f[Len(f)].op # "order" THEN 0
    ELSE 1 + OrderKeys(SubSeq(f, 1, Len(f) - 1))

\* thenBy and thenByDescending exist on an OrderedEnumerable only
\* (lines 1099-1113): one more key on the same sort.
AddKey(stage) ==
    /\ IsOrdered
    /\ OrderKeys(fac) < MaxKeys
    /\ fac' = Append(fac, stage)
    /\ UNCHANGED <<arrays, its, mods>>
    /\ UNCHANGED dvars

ThenBy(keySelector) == AddKey(OrderStage(keySelector, FALSE))
ThenByDescending(keySelector) == AddKey(OrderStage(keySelector, TRUE))

\* The enumeration a forEach runs once getIterator() gave g.
ForEach_begin(f, g) ==
    [pc |-> IF g.err = "none" THEN "run" ELSE "throw",
     err |-> g.err, fac |-> f, it |-> g.it, index |-> 0, out |-> << >>, log |-> g.log]

\* A getIterator() that would hand out the cursor of an enumeration of the
\* same facade that is already running.
ForEachStart_SharedCursor(s) ==
    /\ its[s].pc = "none"
    /\ \A t \in Slots : t < s => its[t].pc # "none"
    /\ its' = [its EXCEPT ![s] =
                  IF \E t \in Slots : its[t].pc = "run" /\ its[t].fac = fac
                  THEN LET t == CHOOSE t \in Slots : its[t].pc = "run" /\ its[t].fac = fac
                       IN  [its[t] EXCEPT !.index = 0, !.out = << >>, !.log = << >>]
                  ELSE ForEach_begin(fac, GetIterator(fac, Len(fac), arrays))]
    /\ UNCHANGED <<arrays, fac, mods>>
    /\ UNCHANGED dvars

\* forEach, lines 683-685: the iterator is made, cont = null, index = 0.
\* (An enumeration takes the lowest free slot.)
ForEachStart(s) ==
    /\ its[s].pc = "none"
    /\ \A t \in Slots : t < s => its[t].pc # "none"
    /\ its' = [its EXCEPT ![s] = ForEach_begin(fac, GetIterator(fac, Len(fac), arrays))]
    /\ UNCHANGED <<arrays, fac, mods>>
    /\ UNCHANGED dvars

\* A forEach that also stops when the callback returns null or undefined.
ForEach_turn_StopOnNull(e, m, ret, arrs) ==
    IF m.err # "none"
    THEN [e EXCEPT !.pc = "throw", !.err = m.err, !.it = m.it, !.log = @ \o m.log]
    ELSE IF ~m.r
    THEN [e EXCEPT !.pc = "done", !.it = m.it, !.log = @ \o m.log]
    ELSE [e EXCEPT !.pc = IF ~Falsy(ret) THEN "run" ELSE "stopped",
                   !.it = m.it,
                   !.index = @ + 1,
                   !.out = Append(@, Current(m.it, Len(e.fac), arrs)),
                   !.log = @ \o m.log \o CurrentLog(m.it, Len(e.fac), arrs)]

\* One turn of forEach's loop in the enumeration e once MoveNext() gave m:
\* it threw, or ended the loop, or is followed by callback(current(), index)
\* returning ret; the loop also ends when ret is falsy and neither null nor
\* undefined.
ForEach_turn(e, m, ret, arrs) ==
    IF m.err # "none"
    THEN [e EXCEPT !.pc = "throw", !.err = m.err, !.it = m.it, !.log = @ \o m.log]
    ELSE IF ~m.r
    THEN [e EXCEPT !.pc = "done", !.it = m.it, !.log = @ \o m.log]
    ELSE [e EXCEPT !.pc = IF isNull(ret) \/ ~Falsy(ret) THEN "run" ELSE "stopped",
                   !.it = m.it,
                   !.index = @ + 1,
                   !.out = Append(@, Current(m.it, Len(e.fac), arrs)),
                   !.log = @ \o m.log \o CurrentLog(m.it, Len(e.fac), arrs)]

\* forEach, lines 686-689 (out is what the callback was called with).
ForEachStep(s, ret) ==
    /\ its[s].pc = "run"
    /\ its' = [its EXCEPT ![s] =
                 ForEach_turn(its[s], MoveNext(its[s].it, Len(its[s].fac), arrays), ret, arrays)]
    /\ UNCHANGED <<arrays, fac, mods>>
    /\ UNCHANGED dvars

\* The caller's own arr.push(elem) and arr.pop() on a backing array.
ArrayPush(name, elem) ==
    /\ mods < MaxMods
    /\ arrays' = [arrays EXCEPT ![name] = Append(@, elem)]
    /\ mods' = mods + 1
    /\ UNCHANGED <<fac, its>>
    /\ UNCHANGED dvars

ArrayPop(name) ==
    /\ mods < MaxMods
    /\ Len(arrays[name]) > 0
    /\ arrays' = [arrays EXCEPT ![name] = SubSeq(@, 1, Len(@) - 1)]
    /\ mods' = mods + 1
    /\ UNCHANGED <<fac, its>>
    /\ UNCHANGED dvars

Next ==
    \/ \E predicate \in SomePredicates : Filter(predicate)
    \/ \E selector \in SomeSelectors : Map(selector)
    \/ \E defaultValue \in {MaxArrElem} : DefaultIfEmpty(defaultValue)
    \/ UnionAll
    \/ \E eqComparer \in SomeCmpArgs : Union(eqComparer)
    \/ \E eqComparer \in SomeCmpArgs : Distinct(eqComparer)
    \/ \E eqComparer \in SomeCmpArgs : Except(eqComparer)
    \/ \E keySelector \in SomeKeySelectors : OrderBy(keySelector)
    \/ \E keySelector \in SomeKeySelectors : OrderByDescending(keySelector)
    \/ \E keySelector \in SomeKeySelectors : ThenBy(keySelector)
    \/ \E keySelector \in SomeKeySelectors : ThenByDescending(keySelector)
    \/ \E s \in Slots : ForEachStart(s)
    \/ \E s \in Slots, ret \in CallbackReturns : ForEachStep(s, ret)
    \/ \E name \in {"A", "B"}, elem \in {0} : ArrayPush(name, elem)
    \/ \E name \in {"A", "B"} : ArrayPop(name)

Spec == Init /\ [][Next]_vars

(***************************************************************************)
(* toArray() as a function of the facade and the arrays: the inputs are    *)
(* drawn at the start and one step runs the whole enumeration.             *)
(***************************************************************************)

\* What toArray() gave: the array it had filled when it returned or threw.
ToArray_result(f, t) ==
    [pc |-> "toArray", fac |-> f, err |-> t.err, out |-> t.arr, log |-> t.log]

ToArray ==
    /\ its[1].pc = "none"
    /\ its' = [its EXCEPT ![1] = ToArray_result(fac, enumProto_toArray(fac, arrays))]
    /\ UNCHANGED <<arrays, fac, mods>>
    /\ UNCHANGED dvars

\* The chains of 1..MaxLinks ordering links: orderBy or orderByDescending,
\* then thenBy or thenByDescending.
Links == {OrderStage(k, d) : k \in KeySelectors, d \in BOOLEAN}

OrderChains == UNION {[1..n -> Links] : n \in 1..MaxLinks}

InitOrder ==
    /\ arrays \in [A : SeqsUpTo(Elems, MaxIn), B : {<< >>}]
    /\ fac \in OrderChains
    /\ its = [s \in Slots |-> NoSlot]
    /\ mods = 0
    /\ DictIdle

SpecOrder == InitOrder /\ [][ToArray]_vars

\* A.except(B, c), A.distinct(c) and A.distinct(c).distinct(c)
SetQueries ==
    UNION {{<<ExceptStage(c)>>, <<DistinctStage(c)>>, <<DistinctStage(c), DistinctStage(c)>>}
               : c \in CmpArgs}

InitSet ==
    /\ arrays \in [A : SeqsUpTo(Elems, MaxIn), B : SeqsUpTo(Elems, MaxInB)]
    /\ fac \in SetQueries
    /\ its = [s \in Slots |-> NoSlot]
    /\ mods = 0
    /\ DictIdle

SpecSet == InitSet /\ [][ToArray]_vars

(***************************************************************************)
(* count(), first() and toArray() on a facade of up to MaxOperators        *)
(* operator calls over A, and count() and toArray() on new List(A).  The   *)
(* iterator of a List is an ArrayIterator on the list itself, so a facade  *)
(* over a List enumerates as the same facade over the array does; only the *)
(* list's own count() and toArray() are different code.                    *)
(***************************************************************************)

\* A count that never counts a falsy element.
Count_of_SkipFalsy(t, predicate) ==
    [r |-> Cardinality({i \in 1..Len(t.arr) :
                           t.arr[i] # 0 /\ Predicate(predicate, t.arr[i], Undefined)}),
     err |-> t.err]

\* enumProto.count: forEach with a callback that tests predicate(elem) and
\* returns undefined; t is what that forEach enumerated.
Count_of(t, predicate) ==
    [r |-> Cardinality({i \in 1..Len(t.arr) : Predicate(predicate, t.arr[i], Undefined)}),
     err |-> t.err]

enumProto_count(stages, arrs, predicate) ==
    Count_of(enumProto_toArray(stages, arrs), predicate)

\* listProto.count: the length field when no predicate is given.
listProto_count(list, predicate) ==
    IF predicate = "none" THEN [r |-> Len(list), err |-> "none"]
    ELSE enumProto_count(<< >>, [A |-> list, B |-> << >>], predicate)

\* listProto.toArray: Array.prototype.slice.call(this)
listProto_toArray(list) == [arr |-> list, err |-> "none", log |-> << >>]

RECURSIVE First_loop(_, _, _, _)
RECURSIVE First_last(_, _, _, _, _)

\* The forEach of a first whose callback never returns false: the last
\* element the predicate accepts is kept.
First_last(it, n, arrs, predicate, found) ==
    LET m == MoveNext(it, n, arrs)
    IN  IF m.err # "none" THEN [r |-> Undefined, err |-> m.err]
        ELSE IF ~m.r THEN found
        ELSE First_last(m.it, n, arrs, predicate,
                        IF Predicate(predicate, Current(m.it, n, arrs), Undefined)
                        THEN [r |-> Current(m.it, n, arrs), err |-> "none"]
                        ELSE found)

First_moved_KeepGoing(m, n, arrs, predicate) ==
    IF m.err # "none" THEN [r |-> Undefined, err |-> m.err]
    ELSE IF ~m.r THEN [r |-> Undefined, err |-> "Collection contains no matching element."]
    ELSE First_last(m.it, n, arrs, predicate,
                    IF Predicate(predicate, Current(m.it, n, arrs), Undefined)
                    THEN [r |-> Current(m.it, n, arrs), err |-> "none"]
                    ELSE [r |-> Undefined, err |-> "Collection contains no matching element."])

\* The forEach of first (lines 751-764) once MoveNext() gave m: the callback
\* returns false at the first element the predicate accepts (any element
\* without a predicate), which ends the loop; the loop ending without one
\* throws the string of line 766.
First_moved(m, n, arrs, predicate) ==
    IF m.err # "none" THEN [r |-> Undefined, err |-> m.err]
    ELSE IF ~m.r THEN [r |-> Undefined, err |-> "Collection contains no matching element."]
    ELSE IF Predicate(predicate, Current(m.it, n, arrs), Undefined)
    THEN [r |-> Current(m.it, n, arrs), err |-> "none"]
    ELSE First_loop(m.it, n, arrs, predicate)

First_loop(it, n, arrs, predicate) == First_moved(MoveNext(it, n, arrs), n, arrs, predicate)

\* enumProto.first after this.count() gave c: g is getIterator() of forEach.
First_counted(c, g, n, arrs, predicate) ==
    IF c.err # "none" THEN [r |-> Undefined, err |-> c.err]
    ELSE IF c.r > 0
    THEN IF g.err # "none" THEN [r |-> Undefined, err |-> g.err]
         ELSE First_loop(g.it, n, arrs, predicate)
    ELSE [r |-> Undefined, err |-> "Collection contains no elements."]

enumProto_first(stages, arrs, predicate) ==
    First_counted(enumProto_count(stages, arrs, "none"),
                  GetIterator(stages, Len(stages), arrs), Len(stages), arrs, predicate)

RECURSIVE ElementAt_loop(_, _, _, _, _, _)

\* An elementAtOrDefault that counts the positions from 1.
ElementAt_moved_OneBased(m, n, arrs, index, i, defaultValue) ==
    IF m.err # "none" THEN [r |-> Undefined, err |-> m.err]
    ELSE IF ~m.r THEN [r |-> defaultValue, err |-> "none"]
    ELSE IF i + 1 = index THEN [r |-> Current(m.it, n, arrs), err |-> "none"]
    ELSE ElementAt_loop(m.it, n, arrs, index, i + 1, defaultValue)

\* The forEach of elementAtOrDefault (lines 645-651) once MoveNext() gave m,
\* i being the index of this turn: the callback returns false at i === index,
\* which ends the loop with elem set; the loop ending without it gives the
\* default.
ElementAt_moved(m, n, arrs, index, i, defaultValue) ==
    IF m.err # "none" THEN [r |-> Undefined, err |-> m.err]
    ELSE IF ~m.r THEN [r |-> defaultValue, err |-> "none"]
    ELSE IF i = index THEN [r |-> Current(m.it, n, arrs), err |-> "none"]
    ELSE ElementAt_loop(m.it, n, arrs, index, i + 1, defaultValue)

ElementAt_loop(it, n, arrs, index, i, defaultValue) ==
    ElementAt_moved(MoveNext(it, n, arrs), n, arrs, index, i, defaultValue)

enumProto_elementAtOrDefault(stages, arrs, index, defaultValue) ==
    IF index < 0 THEN [r |-> defaultValue, err |-> "none"]
    ELSE IF GetIterator(stages, Len(stages), arrs).err # "none"
    THEN [r |-> Undefined, err |-> GetIterator(stages, Len(stages), arrs).err]
    ELSE ElementAt_loop(GetIterator(stages, Len(stages), arrs).it, Len(stages), arrs,
                        index, 0, defaultValue)

\* var def = {}: an object made by the call, identical to no element.
Def == 97

\* elementAt after elementAtOrDefault(index, def) gave res.
ElementAt_checked(res) ==
    IF res.err # "none" THEN res
    ELSE IF res.r = Def
    THEN [r |-> Undefined, err |-> "Index was outside the bounds of the collection."]
    ELSE res

enumProto_elementAt(stages, arrs, index) ==
    ElementAt_checked(enumProto_elementAtOrDefault(stages, arrs, index, Def))

\* What a call gave: out is the value returned, err the exception.
Query_result(name, f, arg, res) ==
    [pc |-> name, fac |-> f, arg |-> arg, err |-> res.err, out |-> res.r, log |-> << >>]

EnumCount(predicate) ==
    /\ its[1].pc = "none"
    /\ its' = [its EXCEPT ![1] =
                  Query_result("count", fac, predicate, enumProto_count(fac, arrays, predicate))]
    /\ UNCHANGED <<arrays, fac, mods>>
    /\ UNCHANGED dvars

EnumFirst(predicate) ==
    /\ its[1].pc = "none"
    /\ its' = [its EXCEPT ![1] =
                  Query_result("first", fac, predicate, enumProto_first(fac, arrays, predicate))]
    /\ UNCHANGED <<arrays, fac, mods>>
    /\ UNCHANGED dvars

ElementAt(index) ==
    /\ its[1].pc = "none"
    /\ its' = [its EXCEPT ![1] =
                  Query_result("elementAt", fac, index, enumProto_elementAt(fac, arrays, index))]
    /\ UNCHANGED <<arrays, fac, mods>>
    /\ UNCHANGED dvars

ElementAtOrDefault(index, defaultValue) ==
    /\ its[1].pc = "none"
    /\ its' = [its EXCEPT ![1] =
                  Query_result("elementAtOrDefault", fac, <<index, defaultValue>>,
                               enumProto_elementAtOrDefault(fac, arrays, index, defaultValue))]
    /\ UNCHANGED <<arrays, fac, mods>>
    /\ UNCHANGED dvars

\* new List(A).count(predicate) and new List(A).toArray()
ListCount(predicate) ==
    /\ its[1].pc = "none"
    /\ fac = << >>
    /\ its' = [its EXCEPT ![1] =
                  Query_result("List.count", fac, predicate,
                               listProto_count(arrays.A, predicate))]
    /\ UNCHANGED <<arrays, fac, mods>>
    /\ UNCHANGED dvars

ListToArray ==
    /\ its[1].pc = "none"
    /\ fac = << >>
    /\ its' = [its EXCEPT ![1] = ToArray_result("List", listProto_toArray(arrays.A))]
    /\ UNCHANGED <<arrays, fac, mods>>
    /\ UNCHANGED dvars

\* The operator calls a facade is built from, and the facades of up to
\* MaxOperators of them.
Operators ==
    {WhereStage(f) : f \in SomePredicates} \cup {SelectStage(f) : f \in SomeSelectors}
        \cup {DefaultIfEmptyStage(dv) : dv \in {0, MaxElem}}
        \cup {UnionAllStage}
        \cup {UnionStage(c) : c \in SomeCmpArgs} \cup {DistinctStage(c) : c \in SomeCmpArgs}
        \cup {ExceptStage(c) : c \in SomeCmpArgs}
        \cup {OrderStage(k, d) : k \in SomeKeySelectors, d \in BOOLEAN}

Facades == SeqsUpTo(Operators, MaxOperators)

\* The facades whose last operator is defaultIfEmpty() with the default
\* omitted: they yield undefined for an empty source.
UndefinedFacades ==
    {Append(f, DefaultIfEmptyStage(Undefined)) : f \in SeqsUpTo(Operators, MaxOperators - 1)}

\* The facades whose last operator is filter() or map() with the callback
\* omitted.
OmittedFacades ==
    {Append(f, st) : f \in SeqsUpTo(Operators, MaxOperators - 1),
                     st \in {WhereStage("none"), SelectStage("none")}}

\* The indexes asked for: negative, in range, past the end.
Indexes == (-1)..(MaxLen + MaxLenB)

InitQuery ==
    /\ arrays \in [A : SeqsUpTo(Elems, MaxLen), B : SeqsUpTo(Elems, MaxLenB)]
    /\ fac \in Facades \cup UndefinedFacades \cup OmittedFacades
    /\ its = [s \in Slots |-> NoSlot]
    /\ mods = 0
    /\ DictIdle

NextQuery ==
    \/ ToArray
    \/ \E predicate \in {"none", "bIs0"} : EnumCount(predicate)
    \/ \E predicate \in {"none", "bIs0"} : EnumFirst(predicate)
    \/ \E index \in Indexes : ElementAt(index)
    \/ \E index \in Indexes, defaultValue \in {Null} : ElementAtOrDefault(index, defaultValue)
    \/ \E predicate \in {"none", "bIs0"} : ListCount(predicate)
    \/ ListToArray

SpecQuery == InitQuery /\ [][NextQuery]_vars

(***************************************************************************)
(* The iterator protocol seen by a caller: one forEach over a facade, turn *)
(* by turn, with the value each callback call returned; then calls of      *)
(* moveNext() on the iterator that has reported the end; and the same on   *)
(* the iterator of a dictionary.  Nothing changes the arrays or the        *)
(* dictionary.                                                             *)
(***************************************************************************)

\* The call callback(current(), index) of the turn that took the
\* enumeration from e to e2, if the turn made one: key is the element, value
\* the index, ret what the callback returned.
ForEachCall_last(e, e2, ret, before) ==
    IF Len(e2.out) > Len(e.out)
    THEN [op |-> "callback", key |-> e2.out[Len(e2.out)], value |-> e.index, err |-> "none",
          ret |-> ret, found |-> FALSE]
    ELSE before

\* forEach, lines 686-689, on the enumeration of slot 1, the callback
\* returning ret.
ForEachCall(ret) ==
    /\ its[1].pc = "run"
    /\ its' = [its EXCEPT ![1] =
                 ForEach_turn(its[1], MoveNext(its[1].it, Len(its[1].fac), arrays), ret, arrays)]
    /\ last' = ForEachCall_last(its[1], its'[1], ret, last)
    /\ UNCHANGED <<arrays, fac, mods>>
    /\ UNCHANGED <<dict, cmpArg, added, removes, nops>>

\* The enumeration e whose iterator has returned false, after one more
\* moveNext() on that iterator gave m: r is what it returned, calls the
\* number of such calls.
AfterEnd(e, m) ==
    [pc |-> "after", err |-> m.err, fac |-> e.fac, it |-> m.it, index |-> e.index,
     out |-> e.out, log |-> e.log \o m.log, r |-> m.r,
     calls |-> IF e.pc = "done" THEN 1 ELSE e.calls + 1]

MoveNextAfterEnd ==
    /\ \/ its[1].pc = "done"
       \/ its[1].pc = "after" /\ its[1].err = "none" /\ its[1].calls < MaxAfter
    /\ its' = [its EXCEPT ![1] =
                 AfterEnd(its[1], MoveNext(its[1].it, Len(its[1].fac), arrays))]
    /\ UNCHANGED <<arrays, fac, mods>>
    /\ UNCHANGED dvars

\* MaxAfter calls of moveNext() on the DictionaryIterator di that has returned
\* false: whether one of them returned true, and the exception of the first
\* that threw.
RECURSIVE DictionaryAfterEnd(_, _, _)
DictionaryAfterEnd_moved(d, m, k) ==
    IF m.err # "none" THEN [r |-> FALSE, err |-> m.err]
    ELSE IF m.r THEN [r |-> TRUE, err |-> "none"]
    ELSE DictionaryAfterEnd(d, m.it, k - 1)

DictionaryAfterEnd(d, di, k) ==
    IF k = 0 THEN [r |-> FALSE, err |-> "none"]
    ELSE DictionaryAfterEnd_moved(d, DictionaryIterator_moveNext(d, di), k)

\* The iterator of the dictionary is run to its end (t is that enumeration)
\* and then advanced MaxAfter more times.
DictAfterEnd(d, t) ==
    IF t.err # "none"
    THEN [pc |-> "dict.throw", err |-> t.err, out |-> t.arr, r |-> FALSE, log |-> << >>]
    ELSE [pc |-> "dict.after", err |-> DictionaryAfterEnd(d, t.it, MaxAfter).err, out |-> t.arr,
          r |-> DictionaryAfterEnd(d, t.it, MaxAfter).r, log |-> << >>]

DictMoveNextAfterEnd ==
    /\ its[1].pc = "none"
    /\ its' = [its EXCEPT ![1] = DictAfterEnd(dict, dictProto_toArray(dict))]
    /\ UNCHANGED <<arrays, fac, mods>>
    /\ UNCHANGED dvars

\* The dictionary after add(key, 0) for the keys of ks in order, the adds
\* that throw left out.
RECURSIVE DictionaryOf(_, _)
DictionaryOf(c, ks) ==
    IF ks = << >> THEN NewDictionary
    ELSE dictProto_add(DictionaryOf(c, SubSeq(ks, 1, Len(ks) - 1)), c, ks[Len(ks)], 0).d

\* Either a facade over the arrays and a new dictionary, or a dictionary
\* with up to MaxDictKeys keys and the facade of an empty array.
InitIter ==
    /\ its = [s \in Slots |-> NoSlot]
    /\ mods = 0
    /\ removes = 0
    /\ last = NoCall
    /\ nops = 0
    /\ \/ /\ arrays \in [A : SeqsUpTo(ArrElems, MaxLen), B : SeqsUpTo(ArrElems, MaxLenB)]
          /\ fac \in Facades \cup OmittedFacades
          /\ cmpArg = ArgAbsent
          /\ dict = NewDictionary
       \/ /\ arrays = [A |-> << >>, B |-> << >>]
          /\ fac = << >>
          /\ cmpArg \in CmpArgs
          /\ dict \in {DictionaryOf(ensureEqComparer(cmpArg), ks) :
                           ks \in SeqsUpTo(Elems, MaxDictKeys)}
    /\ added = StoredPairs(dict)

NextIter ==
    \/ \E s \in {1} : ForEachStart(s)
    \/ \E ret \in CallbackReturns : ForEachCall(ret)
    \/ MoveNextAfterEnd
    \/ DictMoveNextAfterEnd

SpecIter == InitIter /\ [][NextIter]_vars

(***************************************************************************)
(* Ordering calls on an ordering chain: the caller holds a chain O of up   *)
(* to MaxLinks - 1 links over A and enumerates O.orderBy(k) or             *)
(* O.orderByDescending(k) (slot 1) and O.thenBy(k) or                      *)
(* O.thenByDescending(k) (slot 2) with toArray().  An OrderedEnumerable    *)
(* inherits orderBy and orderByDescending from Enumerable.                 *)
(***************************************************************************)
ChainOrderBy(keySelector) ==
    /\ its[1].pc = "none"
    /\ its' = [its EXCEPT ![1] =
                 Query_result("orderBy", Append(fac, OrderStage(keySelector, FALSE)), keySelector,
                     [r |-> enumProto_toArray(Append(fac, OrderStage(keySelector, FALSE)),
                                              arrays).arr,
                      err |-> enumProto_toArray(Append(fac, OrderStage(keySelector, FALSE)),
                                                arrays).err])]
    /\ UNCHANGED <<arrays, fac, mods>>
    /\ UNCHANGED dvars

ChainOrderByDescending(keySelector) ==
    /\ its[1].pc = "none"
    /\ its' = [its EXCEPT ![1] =
                 Query_result("orderByDescending", Append(fac, OrderStage(keySelector, TRUE)),
                     keySelector,
                     [r |-> enumProto_toArray(Append(fac, OrderStage(keySelector, TRUE)),
                                              arrays).arr,
                      err |-> enumProto_toArray(Append(fac, OrderStage(keySelector, TRUE)),
                                                arrays).err])]
    /\ UNCHANGED <<arrays, fac, mods>>
    /\ UNCHANGED dvars

ChainThenBy(keySelector) ==
    /\ its[2].pc = "none"
    /\ its' = [its EXCEPT ![2] =
                 Query_result("thenBy", Append(fac, OrderStage(keySelector, FALSE)), keySelector,
                     [r |-> enumProto_toArray(Append(fac, OrderStage(keySelector, FALSE)),
                                              arrays).arr,
                      err |-> enumProto_toArray(Append(fac, OrderStage(keySelector, FALSE)),
                                                arrays).err])]
    /\ UNCHANGED <<arrays, fac, mods>>
    /\ UNCHANGED dvars

ChainThenByDescending(keySelector) ==
    /\ its[2].pc = "none"
    /\ its' = [its EXCEPT ![2] =
                 Query_result("thenByDescending", Append(fac, OrderStage(keySelector, TRUE)),
                     keySelector,
                     [r |-> enumProto_toArray(Append(fac, OrderStage(keySelector, TRUE)),
                                              arrays).arr,
                      err |-> enumProto_toArray(Append(fac, OrderStage(keySelector, TRUE)),
                                                arrays).err])]
    /\ UNCHANGED <<arrays, fac, mods>>
    /\ UNCHANGED dvars

InitChain ==
    /\ arrays \in [A : SeqsUpTo(Elems, MaxIn), B : {<< >>}]
    /\ fac \in UNION {[1..n -> Links] : n \in 1..MaxLinks - 1}
    /\ its = [s \in Slots |-> NoSlot]
    /\ mods = 0
    /\ DictIdle

NextChain ==
    \/ \E keySelector \in KeySelectors : ChainOrderBy(keySelector)
    \/ \E keySelector \in KeySelectors : ChainOrderByDescending(keySelector)
    \/ \E keySelector \in KeySelectors : ChainThenBy(keySelector)
    \/ \E keySelector \in KeySelectors : ChainThenByDescending(keySelector)

SpecChain == InitChain /\ [][NextChain]_vars

(***************************************************************************)
(* Claims about facades and their enumerations (checked under Spec).       *)
(***************************************************************************)

\* C1: calling filter, map, union, unionAll, distinct, except,
\* defaultIfEmpty, orderBy, orderByDescending, thenBy or thenByDescending
\* only returns a new facade: the call makes no iterator, advances none of
\* the existing ones, invokes no callback and leaves the arrays alone; the
\* events of a facade exist only in the enumerations forEach runs.
C1_OperatorsAreLazy ==
    [][fac' # fac => (its' = its /\ arrays' = arrays)]_vars

\* A facade has been built over a non-empty array and nothing has run.
C1_Witness ==
    /\ fac # << >>
    /\ Len(arrays.A) > 0
    /\ \A s \in Slots : its[s] = NoSlot

IsPrefix(a, b) == Len(a) <= Len(b) /\ SubSeq(b, 1, Len(a)) = a

\* C2: while the arrays are not modified, every enumeration of a facade,
\* whatever other enumerations are in progress and however their steps
\* interleave, yields what one uninterrupted enumeration of the facade
\* yields: a prefix of it while it runs or after the callback stopped it,
\* all of it (and the same exception, if any) once it has ended.
C2_EnumerationsIndependent ==
    mods = 0 =>
        \A s \in Slots :
            its[s].pc # "none" =>
                LET alone == enumProto_toArray(its[s].fac, arrays)
                IN  /\ IsPrefix(its[s].out, alone.arr)
                    /\ its[s].pc = "done" => (alone.err = "none" /\ its[s].out = alone.arr)
                    /\ its[s].pc = "throw" => (alone.err = its[s].err /\ its[s].out = alone.arr)

\* One enumeration of a facade has ended with two elements while another
\* enumeration of the same facade has yielded only the first.
C2_Witness ==
    /\ mods = 0
    /\ \E s, t \in Slots :
          /\ its[s].pc = "done" /\ its[t].pc = "run"
          /\ its[s].fac = its[t].fac
          /\ Len(its[s].fac) > 0
          /\ Len(its[s].out) = 2 /\ Len(its[t].out) = 1

\* The events the step being taken adds to enumeration s.
NewLog(s) == SubSeq(its'[s].log, Len(its[s].log) + 1, Len(its'[s].log))

Called(s, ev, n) == \E j \in DOMAIN NewLog(s) : NewLog(s)[j].ev = ev /\ NewLog(s)[j].x = n

\* The array of the ArrayIterator at the root of enumeration s, or of the
\* second iterator of its UnionIterator at level n, no longer has the
\* length recorded when the iterator was made.
StaleRoot(s) == its[s].it.root.born /\ Len(arrays.A) # its[s].it.root.len

StaleSecond(s, n) ==
    /\ its[s].it.lv[n].op = "union"
    /\ Len(ArrayOf(arrays, its[s].it.lv[n].second)) # its[s].it.lv[n].sec.len

Thrown(s) == its'[s].pc = "throw" /\ its'[s].err = "modified"

\* C3: an ArrayIterator records the length of its array when it is made;
\* a moveNext() on it while the array has another length throws "Collection
\* was modified", through every adapter above it, and no moveNext() throws
\* that while the lengths are as recorded.
C3_ModificationDetected ==
    [][\A s \in Slots :
          (its[s].pc = "run" /\ its'[s] # its[s]) =>
              /\ (StaleRoot(s) /\ Called(s, "moveNextA", 0)) => Thrown(s)
              /\ \A n \in DOMAIN its[s].it.lv :
                    (StaleSecond(s, n) /\ Called(s, "moveNext" \o its[s].it.lv[n].second, n))
                        => Thrown(s)
              /\ Thrown(s) =>
                    (StaleRoot(s) \/ \E n \in DOMAIN its[s].it.lv : StaleSecond(s, n))]_vars

\* An enumeration through an adapter threw after it had yielded an element.
C3_Witness ==
    \E s \in Slots :
        /\ its[s].pc = "throw" /\ its[s].err = "modified"
        /\ Len(its[s].fac) > 0
        /\ its[s].out # << >>

(***************************************************************************)
(* Claims about ordering (checked under SpecOrder).                        *)
(***************************************************************************)
Sorted == its[1].pc = "toArray"

Count(q, e) == Cardinality({i \in DOMAIN q : q[i] = e})

\* The lexicographic comparison of x and y by the keys of links i.. of the
\* chain, each in its link's direction.
RECURSIVE Lex(_, _, _, _)
Lex(links, i, x, y) ==
    IF i > Len(links) THEN 0
    ELSE LET c == compare(KeySelector(links[i].key, x), KeySelector(links[i].key, y))
                     * links[i].descending
         IN  IF c # 0 THEN c ELSE Lex(links, i + 1, x, y)

\* C4: enumerating a chain of ordering links over a source yields the
\* source's elements, each as often as the source has it, with every
\* adjacent pair in order under the lexicographic comparison of the links'
\* keys, each in its link's direction.
C4_OrderingCorrect ==
    Sorted =>
        /\ its[1].err = "none"
        /\ \A e \in Elems : Count(its[1].out, e) = Count(arrays.A, e)
        /\ \A i \in 1..Len(its[1].out) - 1 : Lex(fac, 1, its[1].out[i], its[1].out[i + 1]) <= 0

\* Three links sorted three elements that were not in order, and the second
\* key decided between two of them.
C4_Witness ==
    /\ Sorted
    /\ Len(fac) = 3
    /\ Len(its[1].out) = 3
    /\ its[1].out # arrays.A
    /\ \E i \in 1..2 :
          /\ KeySelector(fac[1].key, its[1].out[i]) = KeySelector(fac[1].key, its[1].out[i + 1])
          /\ KeySelector(fac[2].key, its[1].out[i]) # KeySelector(fac[2].key, its[1].out[i + 1])

KeyValues == {KeySelector(k, e) : k \in KeySelectors, e \in Elems}

\* C5: compare() takes null and undefined keys as equal to each other and
\* less than every other key, and an ascending orderBy puts every element
\* whose key is null or undefined before every element whose key is not.
C5_NullKeysFirst ==
    /\ \A a, b \in KeyValues \cup {Null, Undefined} :
          /\ (isNull(a) /\ isNull(b)) => compare(a, b) = 0
          /\ (isNull(a) /\ ~isNull(b)) => (compare(a, b) < 0 /\ compare(b, a) > 0)
    /\ (Sorted /\ Len(fac) = 1 /\ fac[1].descending = 1) =>
          \A i, j \in DOMAIN its[1].out :
              (i < j /\ isNull(KeySelector(fac[1].key, its[1].out[j])))
                  => isNull(KeySelector(fac[1].key, its[1].out[i]))

\* An ascending orderBy moved a null key and an undefined key in front of
\* the other key the source began with.
C5_Witness ==
    /\ Sorted /\ Len(fac) = 1 /\ fac[1].descending = 1
    /\ Len(arrays.A) = 3
    /\ ~isNull(KeySelector(fac[1].key, arrays.A[1]))
    /\ {KeySelector(fac[1].key, its[1].out[1]), KeySelector(fac[1].key, its[1].out[2])}
           = {Null, Undefined}

(***************************************************************************)
(* Claims about except and distinct (checked under SpecSet).               *)
(***************************************************************************)
Equals(c, x, y) == EqualsFn(ensureEqComparer(c).equals, x, y)

\* The first occurrences of the elements of A that equal no element of B.
RECURSIVE FirstsNotIn(_, _, _, _)
FirstsNotIn(A, B, c, i) ==
    IF i > Len(A) THEN << >>
    ELSE (IF /\ \A j \in DOMAIN B : ~Equals(c, A[i], B[j])
             /\ \A j \in 1..i - 1 : ~Equals(c, A[j], A[i])
          THEN <<A[i]>> ELSE << >>) \o FirstsNotIn(A, B, c, i + 1)

IsExcept == its[1].pc = "toArray" /\ fac[1].op = "except"

\* C6: A.except(B, cmp) yields, in A's order, exactly the first occurrence
\* of each element of A that equals no element of B under cmp.
C6_ExceptCorrect ==
    IsExcept =>
        /\ its[1].err = "none"
        /\ its[1].out = FirstsNotIn(arrays.A, arrays.B, fac[1].eq, 1)

\* The same whenever no hash of an element names a property that every
\* object inherits.
C6_ExceptOwnHashes ==
    (IsExcept /\ \A e \in Elems :
                    HashFn(ensureEqComparer(fac[1].eq).getHash, e) \notin InheritedNames) =>
        /\ its[1].err = "none"
        /\ its[1].out = FirstsNotIn(arrays.A, arrays.B, fac[1].eq, 1)

IsDistinctTwice == its[1].pc = "toArray" /\ Len(fac) = 2

\* C7: S.distinct(cmp).distinct(cmp) enumerates the same elements in the
\* same order as S.distinct(cmp) (and ends as it ends).
C7_DistinctIdempotent ==
    IsDistinctTwice =>
        LET once == enumProto_toArray(<<fac[1]>>, arrays)
        IN  its[1].out = once.arr /\ its[1].err = once.err

\* distinct twice gave two of three elements.
C7_Witness ==
    /\ IsDistinctTwice
    /\ its[1].err = "none"
    /\ Len(arrays.A) = 3
    /\ Len(its[1].out) = 2

(***************************************************************************)
(* Claims about the dictionary (checked under SpecDict).                   *)
(***************************************************************************)
\* The keys stored in the buckets of d.
StoredKeys(d) == UNION {{d.keys[h][i].key : i \in 1..Len(d.keys[h])} : h \in DOMAIN d.keys}

EqualToSome(keys, k) == \E k2 \in keys : EqualsFn(cmp.equals, k2, k)

\* C8: add/get round trip.  As long as only add, get and containsKey have
\* been called, every pair whose add returned normally is found again:
\* get(key) returns its value and containsKey(key) is true, also for keys
\* that share one hash; and containsKey is false for every key equal to none
\* of the added keys.
C8_AddGetRoundTrip ==
    removes = 0 =>
        /\ \A p \in added :
              /\ dictProto_get(dict, cmp, p.key) = [err |-> "none", value |-> p.value]
              /\ dictProto_containsKey(dict, cmp, p.key)
        /\ \A k \in Elems :
              ~EqualToSome({p.key : p \in added}, k) => ~dictProto_containsKey(dict, cmp, k)

\* Two different keys with one hash were added with different values, and a
\* third key equal to neither was asked for.
C8_Witness ==
    /\ removes = 0
    /\ \E p, q \in added :
          /\ p.key # q.key
          /\ p.value # q.value
          /\ HashFn(cmp.getHash, p.key) = HashFn(cmp.getHash, q.key)
    /\ last.op = "containsKey"
    /\ ~EqualToSome({p.key : p \in added}, last.key)

\* C9: remove(k) of a present key k succeeds, after it containsKey(k) is
\* false, count() is one less, and every other key is as it was, for every
\* comparer that keeps the contract.
C9_RemovePresentKey ==
    [][(last'.op = "remove" /\ nops' # nops /\ dictProto_containsKey(dict, cmp, last'.key)) =>
          /\ last'.err = "none"
          /\ ~dictProto_containsKey(dict', cmp, last'.key)
          /\ dictProto_count(dict') = dictProto_count(dict) - 1
          /\ \A k \in Elems :
                ~EqualsFn(cmp.equals, k, last'.key) =>
                    /\ dictProto_containsKey(dict', cmp, k) = dictProto_containsKey(dict, cmp, k)
                    /\ dictProto_get(dict', cmp, k) = dictProto_get(dict, cmp, k)]_vars

\* The same for the comparers whose hash of a key is the key's own string
\* form (the default getHash), where this._.keys[key] is the key's bucket.
C9_RemoveWithDefaultHash ==
    [][(cmp.getHash = "default" /\ last'.op = "remove" /\ nops' # nops
            /\ dictProto_containsKey(dict, cmp, last'.key)) =>
          /\ last'.err = "none"
          /\ ~dictProto_containsKey(dict', cmp, last'.key)
          /\ dictProto_count(dict') = dictProto_count(dict) - 1
          /\ \A k \in Elems :
                ~EqualsFn(cmp.equals, k, last'.key) =>
                    /\ dictProto_containsKey(dict', cmp, k) = dictProto_containsKey(dict, cmp, k)
                    /\ dictProto_get(dict', cmp, k) = dictProto_get(dict, cmp, k)]_vars

\* C10: an add whose key equals a stored key under the active comparer ends
\* with the duplicate-key error and leaves the dictionary as it was.
C10_DuplicateKey ==
    [][(last'.op = "add" /\ nops' # nops /\ EqualToSome(StoredKeys(dict), last'.key)) =>
          (last'.err = "duplicate" /\ dict' = dict)]_vars

\* An add failed as a duplicate of a stored key that is equal to it under
\* the comparer without being the same value.
C10_Witness ==
    /\ last.op = "add"
    /\ last.err = "duplicate"
    /\ last.key \notin StoredKeys(dict)
    /\ EqualToSome(StoredKeys(dict), last.key)

\* C11: a get or a remove whose key equals no stored key under the active
\* comparer fails, whether no bucket exists for the key's hash or the bucket
\* holds only other keys, and the failed call leaves the dictionary as it was.
C11_MissingKey ==
    [][(last'.op \in {"get", "remove"} /\ nops' # nops
            /\ ~EqualToSome(StoredKeys(dict), last'.key)) =>
          (last'.err # "none" /\ dict' = dict)]_vars

\* A remove failed for a key whose hash has a bucket, which holds only
\* other keys.
C11_Witness ==
    /\ last.op = "remove"
    /\ last.err = "notfound"
    /\ hasOwnProperty(dict.keys, HashFn(cmp.getHash, last.key))
    /\ ~EqualToSome(StoredKeys(dict), last.key)

\* C12: after any calls of add and remove the hash list holds each hash at
\* most once, and a hash is in the list exactly when a non-empty bucket
\* exists for it.
C12_HashListInvariant ==
    /\ \A i, j \in 1..Len(dict.hashes) : dict.hashes[i] = dict.hashes[j] => i = j
    /\ \A h \in {dict.hashes[i] : i \in 1..Len(dict.hashes)} \cup DOMAIN dict.keys :
          (\E i \in 1..Len(dict.hashes) : dict.hashes[i] = h)
              <=> (hasOwnProperty(dict.keys, h) /\ Len(dict.keys[h]) > 0)

RECURSIVE BucketSizes(_, _)
BucketSizes(keys, names) ==
    IF names = {} THEN 0
    ELSE LET h == CHOOSE x \in names : TRUE
         IN  Len(keys[h]) + BucketSizes(keys, names \ {h})

\* C13: after any calls of add and remove, successful or failing, no bucket
\* holds two pairs with keys equal under the active comparer, every pair sits
\* in the bucket of its key's hash, and count() is the sum of the bucket
\* sizes.
C13_BucketInvariant ==
    /\ \A h \in DOMAIN dict.keys : \A i, j \in 1..Len(dict.keys[h]) :
          EqualsFn(cmp.equals, dict.keys[h][i].key, dict.keys[h][j].key) => i = j
    /\ \A h \in DOMAIN dict.keys : \A i \in 1..Len(dict.keys[h]) :
          HashFn(cmp.getHash, dict.keys[h][i].key) = h
    /\ dictProto_count(dict) = BucketSizes(dict.keys, DOMAIN dict.keys)

\* C14: after any calls of add and remove, enumerating the dictionary
\* (toArray) ends without error and yields each stored pair exactly once,
\* the pairs of one bucket in the order of the bucket; so the number of
\* enumerated pairs is count().
C14_DictionaryEnumeration ==
    [][(last'.op = "toArray" /\ nops' # nops) =>
          /\ last'.err = "none"
          /\ \A p \in StoredPairs(dict) :
                Cardinality({i \in 1..Len(last'.ret) : last'.ret[i] = p}) = 1
          /\ \A i \in 1..Len(last'.ret) : last'.ret[i] \in StoredPairs(dict)
          /\ \A h \in DOMAIN dict.keys : \A i, j \in 1..Len(dict.keys[h]) :
                i < j => \A k, l \in 1..Len(last'.ret) :
                    (last'.ret[k] = dict.keys[h][i] /\ last'.ret[l] = dict.keys[h][j]) => k < l
          /\ Len(last'.ret) = dictProto_count(dict)]_vars

\* C15: getKeys() returns the stored keys and getValues() the stored values,
\* one entry per stored pair, the pairs of one bucket in the order of the
\* bucket.
C15_GetKeysGetValues ==
    [][(last'.op \in {"getKeys", "getValues"} /\ nops' # nops) =>
          /\ last'.err = "none"
          /\ Len(last'.ret) = BucketSizes(dict.keys, DOMAIN dict.keys)
          /\ \A h \in DOMAIN dict.keys :
                \E f \in [1..Len(dict.keys[h]) -> 1..Len(last'.ret)] :
                    /\ \A i, j \in DOMAIN f : i < j => f[i] < f[j]
                    /\ \A i \in DOMAIN f :
                          last'.ret[f[i]] = IF last'.op = "getKeys" THEN dict.keys[h][i].key
                                            ELSE dict.keys[h][i].value]_vars

(***************************************************************************)
(* Claims about count(), first() and toArray() (checked under SpecQuery).  *)
(***************************************************************************)

C17_DefaultIfEmpty ==
    (its[1].pc = "toArray" /\ fac # << >> /\ fac[Len(fac)].op = "defaultIfEmpty") =>
        LET src == enumProto_toArray(SubSeq(fac, 1, Len(fac) - 1), arrays)
        IN  /\ its[1].err = src.err
            /\ src.err = "none" =>
                  its[1].out = IF src.arr = << >> THEN <<fac[Len(fac)].dv>> ELSE src.arr

\* The default was yielded for a source that is empty although its array
\* is not.
C17_Witness ==
    /\ its[1].pc = "toArray"
    /\ Len(fac) = 2
    /\ fac[2].op = "defaultIfEmpty"
    /\ arrays.A # << >>
    /\ its[1].err = "none"
    /\ its[1].out = <<fac[2].dv>>
    /\ enumProto_toArray(SubSeq(fac, 1, 1), arrays).arr = << >>

\* The least index of s whose element the predicate accepts (0: none).
FirstHit(s, predicate) ==
    IF \E i \in 1..Len(s) : Predicate(predicate, s[i], Undefined)
    THEN CHOOSE i \in 1..Len(s) :
             /\ Predicate(predicate, s[i], Undefined)
             /\ \A j \in 1..(i - 1) : ~Predicate(predicate, s[j], Undefined)
    ELSE 0

\* C20: first(predicate?) returns the earliest element of the sequence (the
\* earliest one the predicate accepts when one is given) and fails when the
\* sequence is empty or no element satisfies the predicate; the sequence is
\* what toArray() gives, and first throws what enumerating it throws.
C20_First ==
    its[1].pc = "first" =>
        LET t == enumProto_toArray(fac, arrays)
            hit == FirstHit(t.arr, its[1].arg)
        IN  IF t.err # "none" THEN its[1].err = t.err
            ELSE IF hit = 0
            THEN its[1].err = IF t.arr = << >> THEN "Collection contains no elements."
                              ELSE "Collection contains no matching element."
            ELSE its[1].err = "none" /\ its[1].out = t.arr[hit]

\* first(predicate) returned an element that is not the first of the
\* sequence, which has a later element satisfying the predicate too.
C20_Witness ==
    /\ its[1].pc = "first"
    /\ its[1].arg = "bIs0"
    /\ its[1].err = "none"
    /\ Len(fac) > 0
    /\ LET t == enumProto_toArray(fac, arrays)
       IN  /\ FirstHit(t.arr, "bIs0") = 2
           /\ Len(t.arr) >= 3
           /\ Predicate("bIs0", t.arr[3], Undefined)
           /\ t.arr[3] # t.arr[2]

(***************************************************************************)
(* Claims about forEach and the iterator protocol (checked under SpecIter).*)
(***************************************************************************)

\* C18: forEach calls the callback on the elements in sequence order with a
\* zero-based index; it stops, with no further callback call and no further
\* advance of the iterator, right after the first call that returns a falsy
\* value other than null and undefined, and only then: with callbacks
\* returning null, undefined or a truthy value it ends when the iterator is
\* exhausted, having passed every element of the sequence.
C18_ForEach ==
    [][/\ (its[1].pc = "run" /\ Len(its'[1].out) > Len(its[1].out)) =>
             /\ Len(its'[1].out) = Len(its[1].out) + 1
             /\ last'.op = "callback"
             /\ last'.value = Len(its[1].out)
             /\ last'.key = its'[1].out[Len(its'[1].out)]
             /\ IsPrefix(its'[1].out, enumProto_toArray(fac, arrays).arr)
             /\ its'[1].pc = IF Falsy(last'.ret) /\ ~isNull(last'.ret) THEN "stopped" ELSE "run"
       /\ (its[1].pc = "run" /\ its'[1].pc = "stopped") => Len(its'[1].out) > Len(its[1].out)
       /\ (its[1].pc = "run" /\ its'[1].pc = "done") =>
             /\ its'[1].out = its[1].out
             /\ its'[1].out = enumProto_toArray(fac, arrays).arr
       /\ its[1].pc = "stopped" => its'[1] = its[1]]_vars

\* A forEach over a facade of two operators was stopped by a callback
\* returning false at its second call, after a call that returned null or
\* undefined, with elements left in the sequence.
C18_Witness ==
    /\ its[1].pc = "stopped"
    /\ Len(fac) = 2
    /\ Len(its[1].out) = 2
    /\ last.op = "callback"
    /\ last.value = 1
    /\ last.ret = 0
    /\ Len(enumProto_toArray(fac, arrays).arr) > 2

\* C19: once moveNext() of an iterator has returned false, every later
\* moveNext() on it returns false too (and does not throw), for the
\* iterators of the facades of every operator and of a dictionary, the
\* arrays and the dictionary being left as they are.
C19_IteratorProtocol ==
    /\ its[1].pc = "after" => (its[1].err = "none" /\ ~its[1].r)
    /\ its[1].pc = "dict.after" => (its[1].err = "none" /\ ~its[1].r)

\* moveNext() was called MaxAfter times after the end on the iterator of a
\* union over an operator, which had yielded elements of both arrays.
C19_Witness ==
    /\ its[1].pc = "after"
    /\ its[1].calls = MaxAfter
    /\ Len(fac) = 2
    /\ fac[2].op = "union"
    /\ fac[2].second = "B"
    /\ arrays.B # << >>
    /\ Len(its[1].out) >= 2

\* C21: elementAt(i) returns the element at the zero-based position i of
\* the sequence when 0 <= i < count, also when that element is undefined,
\* and fails with the out-of-range error for a negative i and for
\* i >= count; elementAtOrDefault(i, d) returns the same element when i is
\* in range and d otherwise, without failing.  (The sequence is what
\* toArray() gives; where enumerating it throws after some elements, a
\* position among these is in range and a position past them makes both
\* calls throw that exception.)
C21_ElementAt ==
    LET t == enumProto_toArray(fac, arrays)
    IN  /\ its[1].pc = "elementAt" =>
              IF 0 <= its[1].arg /\ its[1].arg < Len(t.arr)
              THEN its[1].err = "none" /\ its[1].out = t.arr[its[1].arg + 1]
              ELSE IF its[1].arg < 0 \/ t.err = "none"
              THEN its[1].err = "Index was outside the bounds of the collection."
              ELSE its[1].err = t.err
        /\ its[1].pc = "elementAtOrDefault" =>
              IF 0 <= its[1].arg[1] /\ its[1].arg[1] < Len(t.arr)
              THEN its[1].err = "none" /\ its[1].out = t.arr[its[1].arg[1] + 1]
              ELSE IF its[1].arg[1] < 0 \/ t.err = "none"
              THEN its[1].err = "none" /\ its[1].out = its[1].arg[2]
              ELSE its[1].err = t.err

\* elementAt(2) returned the third element of a sequence of three.
C21_Witness ==
    /\ its[1].pc = "elementAt"
    /\ its[1].arg = 2
    /\ its[1].err = "none"
    /\ Len(fac) > 0
    /\ Len(enumProto_toArray(fac, arrays).arr) = 3
    /\ its[1].out # enumProto_toArray(fac, arrays).arr[1]

(***************************************************************************)
(* Claims about union, unionAll, filter and map (checked under SpecQuery). *)
(***************************************************************************)
\* toArray() was called on a facade whose last operator is union(other, cmp)
\* or distinct(cmp).
IsUnion ==
    /\ its[1].pc = "toArray"
    /\ fac # << >>
    /\ fac[Len(fac)].op = "union"
    /\ fac[Len(fac)].dedup

\* The receiver of the last operator, enumerated, and its other sequence.
Receiver == enumProto_toArray(SubSeq(fac, 1, Len(fac) - 1), arrays)

Other == ArrayOf(arrays, fac[Len(fac)].second)

\* C22: union(other, cmp) and distinct(cmp) yield, in the order of the
\* receiver's elements followed by other's, exactly the first element of
\* each equivalence class under cmp: toArray() ends normally, no two
\* elements of its result are equal under cmp, and every input element
\* equals some element of the result.
C22_UnionDistinct ==
    (IsUnion /\ Receiver.err = "none") =>
        /\ its[1].err = "none"
        /\ its[1].out = FirstsNotIn(Receiver.arr \o Other, << >>, fac[Len(fac)].eq, 1)
        /\ \A i, j \in DOMAIN its[1].out :
              i # j => ~Equals(fac[Len(fac)].eq, its[1].out[i], its[1].out[j])
        /\ \A i \in DOMAIN (Receiver.arr \o Other) :
              \E j \in DOMAIN its[1].out :
                  Equals(fac[Len(fac)].eq, (Receiver.arr \o Other)[i], its[1].out[j])

\* The same whenever no hash of an element names a property that every
\* object inherits.
C22_UnionOwnHashes ==
    (/\ IsUnion
     /\ Receiver.err = "none"
     /\ \A i \in DOMAIN (Receiver.arr \o Other) :
           HashFn(ensureEqComparer(fac[Len(fac)].eq).getHash, (Receiver.arr \o Other)[i])
               \notin InheritedNames) =>
        /\ its[1].err = "none"
        /\ its[1].out = FirstsNotIn(Receiver.arr \o Other, << >>, fac[Len(fac)].eq, 1)

\* The last element of the receiver was a duplicate and an element of other
\* was yielded after it.
C22_LastOfFirstIsDuplicate ==
    /\ IsUnion
    /\ its[1].err = "none"
    /\ Len(Receiver.arr) = 2
    /\ Equals(fac[Len(fac)].eq, Receiver.arr[1], Receiver.arr[2])
    /\ Len(Other) = 1
    /\ its[1].out = <<Receiver.arr[1], Other[1]>>

\* toArray() was called on a facade whose last operator is unionAll(other).
IsUnionAll ==
    /\ its[1].pc = "toArray"
    /\ fac # << >>
    /\ fac[Len(fac)].op = "union"
    /\ ~fac[Len(fac)].dedup

\* The advances of the second sequence's iterator by the last operator.
SecondAdvance == Ev("moveNext" \o fac[Len(fac)].second, Len(fac), 0)

\* What getIterator() of the receiver did.
ReceiverIterator == GetIterator(fac, Len(fac) - 1, arrays)

\* C23: unionAll/concat is plain concatenation.  toArray() gives every
\* element of the receiver in order, then every element of other in order,
\* nothing removed, and count() gives the sum of the two counts.  One
\* enumeration does what obtaining the receiver's iterator does, obtains
\* other's iterator, then does all that enumerating the receiver to its end
\* does, and only then advances other's iterator, once per element of other
\* and once more; if the receiver's enumeration throws, other's iterator is
\* never advanced.
C23_UnionAllConcat ==
    /\ IsUnionAll =>
          /\ its[1].err = Receiver.err
          /\ Receiver.err = "none" =>
                /\ its[1].out = Receiver.arr \o Other
                /\ its[1].log =
                      ReceiverIterator.log
                          \o <<Ev("getIterator" \o fac[Len(fac)].second, 0, 0)>>
                          \o SubSeq(Receiver.log, Len(ReceiverIterator.log) + 1,
                                    Len(Receiver.log))
                          \o [j \in 1..Len(Other) + 1 |-> SecondAdvance]
          /\ Receiver.err # "none" =>
                \A j \in DOMAIN its[1].log : its[1].log[j] # SecondAdvance
    /\ (/\ its[1].pc = "count"
        /\ its[1].arg = "none"
        /\ fac # << >>
        /\ fac[Len(fac)].op = "union"
        /\ ~fac[Len(fac)].dedup
        /\ Receiver.err = "none") =>
          its[1].err = "none" /\ its[1].out = Len(Receiver.arr) + Len(Other)

\* Two sequences with a common element were concatenated, the receiver
\* being a filter that skipped an element.
C23_Witness ==
    /\ IsUnionAll
    /\ its[1].err = "none"
    /\ Len(fac) = 2
    /\ fac[1].op = "where"
    /\ Len(Receiver.arr) = 1
    /\ Len(arrays.A) = 2
    /\ Other = Receiver.arr
    /\ its[1].out = Receiver.arr \o Other

\* The elements of arr from position i on that the predicate f accepts when
\* called with the element and its zero-based position in arr.
RECURSIVE Filtered(_, _, _)
Filtered(arr, f, i) ==
    IF i > Len(arr) THEN << >>
    ELSE (IF Predicate(f, arr[i], i - 1) THEN <<arr[i]>> ELSE << >>) \o Filtered(arr, f, i + 1)

IsFilter == its[1].pc = "toArray" /\ fac # << >> /\ fac[Len(fac)].op = "where"

\* The calls of a predicate in the log.
Tests(log) == {log[j] : j \in {k \in DOMAIN log : log[k].ev = "predicate"}}

\* C24: filter(p) yields exactly the source elements e for which p(e, i)
\* holds, in source order, i being e's zero-based position in the source;
\* in one enumeration p is called exactly once for each source element,
\* with that element and that position (counted beyond the calls the
\* source's own enumeration makes); with the predicate omitted every
\* element is passed through and nothing is called; the enumeration throws
\* what the source's throws.
C24_Filter ==
    IsFilter =>
        /\ its[1].err = Receiver.err
        /\ Receiver.err = "none" =>
              /\ its[1].out = Filtered(Receiver.arr, fac[Len(fac)].f, 1)
              /\ fac[Len(fac)].f = "none" =>
                    its[1].out = Receiver.arr /\ Tests(its[1].log) = Tests(Receiver.log)
              /\ fac[Len(fac)].f # "none" =>
                    \A t \in Tests(its[1].log)
                              \cup {Ev("predicate", Receiver.arr[i], i - 1) :
                                       i \in DOMAIN Receiver.arr} :
                        Count(its[1].log, t)
                            = Count(Receiver.log, t)
                                + (IF t.i < Len(Receiver.arr) /\ Receiver.arr[t.i + 1] = t.x
                                   THEN 1 ELSE 0)

\* A filter by position over three elements skipped the second and yielded
\* the third.
C24_Witness ==
    /\ IsFilter
    /\ its[1].err = "none"
    /\ fac[Len(fac)].f = "evenIndex"
    /\ Len(Receiver.arr) = 3
    /\ its[1].out = <<Receiver.arr[1], Receiver.arr[3]>>

\* A filter without a predicate passed two elements through.
C24_OmittedPredicate ==
    /\ IsFilter
    /\ its[1].err = "none"
    /\ fac[Len(fac)].f = "none"
    /\ Len(its[1].out) = 2

\* toArray() was called on a facade whose last operator is union(other) or
\* distinct(), no comparer given.
IsDefaultUnion == IsUnion /\ fac[Len(fac)].eq = ArgAbsent

\* The elements of the two sequences, the receiver's first.
UnionInput == Receiver.arr \o Other

\* C29: union(other) and distinct() without a comparer deduplicate by
\* identity: toArray() ends normally and gives each distinct input element
\* once, at the place of its first occurrence, so no two elements of the
\* result are identical.
C29_DefaultDedup ==
    (IsDefaultUnion /\ Receiver.err = "none") =>
        /\ its[1].err = "none"
        /\ \A e \in {UnionInput[i] : i \in DOMAIN UnionInput} : Count(its[1].out, e) = 1
        /\ \A i \in DOMAIN its[1].out : Count(UnionInput, its[1].out[i]) > 0
        /\ \A i, j \in DOMAIN its[1].out :
              (i < j) => \E k, l \in DOMAIN UnionInput :
                            /\ k < l
                            /\ UnionInput[k] = its[1].out[i]
                            /\ UnionInput[l] = its[1].out[j]
                            /\ \A m \in 1..l - 1 : UnionInput[m] # its[1].out[j]

\* What such a call collected, also up to the point where it threw, never
\* holds an element twice ...
C29_NoTwoIdentical ==
    IsDefaultUnion => \A i, j \in DOMAIN its[1].out : i # j => its[1].out[i] # its[1].out[j]

\* ... and the call ends normally whenever no element's string form names a
\* property that every object inherits, and only then.
C29_ThrowsOnInheritedNames ==
    (IsDefaultUnion /\ Receiver.err = "none") =>
        (its[1].err = "none"
            <=> \A i \in DOMAIN UnionInput : ToStr(UnionInput[i]) \notin InheritedNames)

\* Two different elements with one string form, and so one default hash,
\* were both kept, a repetition of the first was dropped.
C29_SharedHash ==
    /\ IsDefaultUnion
    /\ its[1].err = "none"
    /\ Len(UnionInput) = 3
    /\ Len(its[1].out) = 2
    /\ ToStr(its[1].out[1]) = ToStr(its[1].out[2])

(***************************************************************************)
(* Claims about map/select as an iterator (checked under SpecIter).        *)
(***************************************************************************)
\* The enumeration of slot 1 is one of a facade whose last operator is
\* map(f).
IsMap ==
    /\ its[1].pc \in {"run", "stopped", "done", "after", "throw"}
    /\ fac # << >>
    /\ fac[Len(fac)].op = "select"

\* The events of a log other than selector calls, and the selector calls.
NoSelectorCalls(log) == SelectSeq(log, LAMBDA v : v.ev # "selector")

SelectorCalls(log) == {log[j] : j \in {k \in DOMAIN log : log[k].ev = "selector"}}

\* C25: map/select(f).  Every advance advances the source exactly once:
\* apart from calls of selectors, an enumeration does what the source's own
\* enumeration does, step for step, and ends when it ends.  A forEach run to
\* the end has passed f(e_i, i) for the i-th source element e_i (i from 0),
\* in order, f being called once each (beyond the calls the source's own
\* enumeration makes), and the source's elements themselves when f is
\* omitted.  Before the first advance and after an advance that returned
\* false current() returns undefined and calls nothing.
C25_Select ==
    IsMap =>
        /\ its[1].pc # "after" =>
              IsPrefix(NoSelectorCalls(its[1].log), NoSelectorCalls(Receiver.log))
        /\ its[1].pc = "throw" => its[1].err = Receiver.err
        /\ its[1].pc = "done" =>
              /\ Receiver.err = "none"
              /\ NoSelectorCalls(its[1].log) = NoSelectorCalls(Receiver.log)
              /\ its[1].out = [i \in 1..Len(Receiver.arr) |->
                                  Selector(fac[Len(fac)].f, Receiver.arr[i], i - 1)]
              /\ fac[Len(fac)].f = "none" => its[1].out = Receiver.arr
              /\ \A t \in SelectorCalls(its[1].log)
                            \cup {Ev("selector", Receiver.arr[i], i - 1) :
                                     i \in {k \in DOMAIN Receiver.arr : fac[Len(fac)].f # "none"}} :
                    Count(its[1].log, t)
                        = Count(Receiver.log, t)
                            + (IF /\ fac[Len(fac)].f # "none"
                                  /\ t.i < Len(Receiver.arr)
                                  /\ Receiver.arr[t.i + 1] = t.x
                               THEN 1 ELSE 0)
        /\ (\/ its[1].pc = "run" /\ its[1].index = 0
            \/ its[1].pc = "done"
            \/ its[1].pc = "after" /\ its[1].err = "none" /\ ~its[1].r) =>
              /\ Current(its[1].it, Len(fac), arrays) = Undefined
              /\ CurrentLog(its[1].it, Len(fac), arrays) = << >>

\* A forEach over a map by position of two elements ran to the end and
\* passed other values than the source's.
C25_Witness ==
    /\ IsMap
    /\ its[1].pc = "done"
    /\ fac[Len(fac)].f = "plusIndex"
    /\ Len(its[1].out) = 2
    /\ its[1].out # Receiver.arr
    /\ its[1].out[2] = Selector("plusIndex", Receiver.arr[2], 1)

\* A map without a selector was advanced once more after its end.
C25_OmittedSelector ==
    /\ IsMap
    /\ its[1].pc = "after"
    /\ fac[Len(fac)].f = "none"
    /\ Len(its[1].out) = 2

(***************************************************************************)
(* Claims about except as an iterator (checked under SpecIter).            *)
(***************************************************************************)
\* The enumeration of slot 1 is one of S.except(B), the iterator of S
\* having been made.
IsExceptEnumeration ==
    /\ its[1].pc \in {"run", "stopped", "done", "throw"}
    /\ fac # << >>
    /\ fac[Len(fac)].op = "except"
    /\ ReceiverIterator.err = "none"

\* Obtaining the iterator of S, then one complete enumeration of B.
ExceptStart == ReceiverIterator.log \o DrainLog("B", Len(arrays.B))

\* ... then all that enumerating S to its end does after obtaining its
\* iterator, calls of selectors left out.
ExceptWhole ==
    ExceptStart \o NoSelectorCalls(SubSeq(Receiver.log, Len(ReceiverIterator.log) + 1,
                                          Len(Receiver.log)))

\* C26: in one enumeration of S.except(B), B is enumerated completely, once,
\* when the iterator is made and before S's iterator is advanced at all;
\* from then on the enumeration only advances S's iterator, step for step
\* as S's own enumeration does (so each element of S is pulled at most
\* once, and exactly once when the enumeration runs to the end) and never
\* touches B again.  If enumerating B throws, S's iterator is never advanced.
C26_ExceptOrder ==
    IsExceptEnumeration =>
        /\ its[1].pc # "throw" => IsPrefix(ExceptStart, its[1].log)
        /\ its[1].pc = "throw" =>
              \/ IsPrefix(ExceptStart, its[1].log)
              \/ its[1].log = ReceiverIterator.log \o <<Ev("getIteratorB", 0, 0)>>
        /\ IsPrefix(ExceptStart, its[1].log) =>
              IsPrefix(NoSelectorCalls(its[1].log), ExceptWhole)
        /\ its[1].pc = "done" => NoSelectorCalls(its[1].log) = ExceptWhole

\* The first element of A was also in B: one turn of the forEach pulled two
\* elements of A and passed the second.
C26_Witness ==
    /\ IsExceptEnumeration
    /\ its[1].pc = "run"
    /\ Len(fac) = 1
    /\ Len(arrays.A) = 2
    /\ arrays.B = <<arrays.A[1]>>
    /\ its[1].out = <<arrays.A[2]>>
    /\ Count(its[1].log, Ev("moveNextA", 0, 0)) = 2
    /\ Count(its[1].log, Ev("moveNextB", 0, 0)) = 2

(***************************************************************************)
(* Claims about ordering as an iterator (checked under Spec).              *)
(***************************************************************************)
\* The facade f is an ordering chain over the array A.
IsOrderChain(f) == f # << >> /\ \A j \in DOMAIN f : f[j].op = "order"

\* One enumeration of A into an array, and the sort of n elements (which
\* calls key selectors only if there is something to compare).
Realization(n) ==
    <<Ev("getIteratorA", 0, 0)>> \o [j \in 1..n + 1 |-> Ev("toArray.moveNextA", 0, 0)]
        \o (IF n < 2 THEN << >> ELSE <<Ev("keySelector", n, 0)>>)

\* C27: ordering is deferred and realized once per iterator.  An operator
\* call that makes or extends an ordering chain changes no enumeration and
\* evaluates nothing, and so does obtaining the iterator of the chain; the
\* first advance of that iterator enumerates the source array once, as it
\* is then, and sorts it; later advances of the same iterator do nothing to
\* the source and call no key selector; and two enumerations of one chain
\* that ran to the end over an array never changed each made their own
\* realization and passed the same sequence.
C27_DeferredOrdering ==
    [][/\ (fac' # fac /\ IsOrderChain(fac')) => its' = its
       /\ \A s \in Slots :
             /\ (its[s].pc = "none" /\ its'[s].pc # "none" /\ IsOrderChain(its'[s].fac)) =>
                   /\ its'[s].pc = "run"
                   /\ its'[s].log = << >>
                   /\ its'[s].out = << >>
             /\ (its[s].pc = "run" /\ its'[s] # its[s] /\ IsOrderChain(its[s].fac)) =>
                   /\ its'[s].pc # "throw"
                   /\ NewLog(s) = IF its[s].index = 0
                                  THEN Realization(Len(arrays.A)) ELSE << >>
             /\ (its'[s].pc = "done" /\ IsOrderChain(its'[s].fac)) =>
                   /\ Count(its'[s].log, Ev("getIteratorA", 0, 0)) = 1
                   /\ mods' = 0 => its'[s].log = Realization(Len(arrays.A))
                   /\ \A t \in Slots :
                         (its'[t].pc = "done" /\ its'[t].fac = its'[s].fac /\ mods' = 0) =>
                             its'[t].out = its'[s].out /\ its'[t].log = its'[s].log]_vars

\* Two enumerations of one chain of two keys over two elements that were
\* not in order both ran to the end.
C27_Witness ==
    /\ its[1].pc = "done"
    /\ its[2].pc = "done"
    /\ its[1].fac = its[2].fac
    /\ IsOrderChain(its[1].fac)
    /\ Len(its[1].fac) = 2
    /\ mods = 0
    /\ Len(its[1].out) = 2
    /\ its[1].out # arrays.A
    /\ its[2].out = its[1].out

(***************************************************************************)
(* Claims about ordering calls on an ordering chain (checked under         *)
(* SpecChain).                                                             *)
(***************************************************************************)
\* The direction of the link an ordering call of that name adds.
DirectionOf(name) == IF name \in {"orderBy", "thenBy"} THEN 1 ELSE -1

\* out is arr ordered by the keys of the chain O, each in its direction,
\* the key k in direction dir deciding only between elements that the keys
\* of O take for equal.
TiesBrokenBy(out, arr, O, k, dir) ==
    /\ \A e \in Elems : Count(out, e) = Count(arr, e)
    /\ \A i \in 1..Len(out) - 1 :
          /\ Lex(O, 1, out[i], out[i + 1]) <= 0
          /\ Lex(O, 1, out[i], out[i + 1]) = 0 =>
                compare(KeySelector(k, out[i]), KeySelector(k, out[i + 1])) * dir <= 0

====
